---- MODULE Spec2Model ----
(***************************************************************************)
(* A model of the notebooks of the 2017 intermediate Python course:        *)
(*   - the object-oriented examples (Reverser, Dog),                       *)
(*   - the breast-cancer machine-learning workflow,                        *)
(*   - the bioimage analysis pipeline.                                     *)
(*   - the kernel's global namespace while a notebook runs top to bottom.  *)
(* Every notebook is a straight sequence of cells run by one interpreter;  *)
(* each section below has its own variables, Init, actions and             *)
(* specification.                                                          *)
(***************************************************************************)
EXTENDS Integers, Sequences, FiniteSets, TLC

VARIABLES
    \* ---- Reverser (name mangling) ----
    rv_x,          \* the instance dict (__dict__) of x, <<>> while x is unbound
    rv_out,        \* <<>> or <<s>>: the value the last get_reverse() returned
    rv_assigned,   \* <<>> or <<v>>: the value last assigned as x.__private = v
    \* ---- Dog (mutable class variable) ----
    dog_class,     \* the class dict of Dog: kind, and tricks as a list reference
    dog_inst,      \* instance id -> instance dict
    dog_heap,      \* list reference -> list contents
    dog_added,     \* history: the tricks passed to add_trick, in call order
    \* ---- breast-cancer workflow ----
    ml_pc,         \* the next cell to execute
    ml_ns,         \* run -> the notebook namespace of that run (a record)
    ml_target,     \* d['target'], the labels of the dataset (same in every run)
    ml_seeded,     \* the permutation RandomState(42) yields (fixed by the seed)
    \* ---- bioimage analysis ----
    im_pc,         \* the next cell to execute
    im_heap,       \* array reference -> the array's pixel values
    im_ns,         \* the notebook namespace (a record)
    \* ---- the kernel running a notebook top to bottom ----
    nb_name,       \* the notebook being run: "oop", "ml" or "image"
    nb_pc,         \* <<cell, statement>>: the next statement to execute
    nb_globals,    \* the global namespace: name -> the binding of the name
    nb_errors,     \* history: the NameErrors raised so far
    nb_uses        \* history: the reads of classes and instances so far

rvVars  == <<rv_x, rv_out, rv_assigned>>
dogVars == <<dog_class, dog_inst, dog_heap, dog_added>>
mlVars  == <<ml_pc, ml_ns, ml_target, ml_seeded>>
imVars  == <<im_pc, im_heap, im_ns>>
nbVars  == <<nb_name, nb_pc, nb_globals, nb_errors, nb_uses>>
vars    == <<rvVars, dogVars, mlVars, imVars, nbVars>>

\* ---------------------------------------------------------------------
\* Python helpers
\* ---------------------------------------------------------------------

\* s[::-1] on a str
RECURSIVE ReverseStr(_)
ReverseStr(s) ==
    IF Len(s) = 0 THEN ""
    ELSE ReverseStr(SubSeq(s, 2, Len(s))) \o SubSeq(s, 1, 1)

\* obj.attr = v  on an instance dict
SetAttr(d, k, v) == [a \in (DOMAIN d) \cup {k} |-> IF a = k THEN v ELSE d[a]]

\* A mangling that leaves every identifier as written.
MangleNone(ident, cls) == ident

\* Private name mangling: an identifier written inside the body of class cls
\* that starts with two underscores and does not end with two underscores is
\* compiled as _cls + identifier; cls = "" is code outside any class.
Mangle(ident, cls) ==
    IF /\ cls # ""
       /\ Len(ident) > 2
       /\ SubSeq(ident, 1, 2) = "__"
       /\ SubSeq(ident, Len(ident) - 1, Len(ident)) # "__"
    THEN "_" \o cls \o ident
    ELSE ident

\* ---------------------------------------------------------------------
\* Reverser
\* ---------------------------------------------------------------------
MaxNames == 7
NamePool == <<"hello world", "", "a", "ab", "abc", "__private", "abcd", "level", "stressed">>
Names == {NamePool[i] : i \in 1..MaxNames}
MaxOutside == 7
OutsidePool == <<"luddism", "", "ba", "dlrow olleh", "cba", "a", "b", "hello world", "desserts">>
OutsideValues == {OutsidePool[i] : i \in 1..MaxOutside}

RvInit ==
    /\ rv_x = <<>>
    /\ rv_out = <<>>
    /\ rv_assigned = <<>>

\* Reverser.__init__(self, name), as run by x = Reverser(name)
Reverser_init(name) ==
    /\ rv_x' = SetAttr(SetAttr(<<>>, Mangle("public", "Reverser"), name),
                       Mangle("__private", "Reverser"), ReverseStr(name))
    /\ rv_out' = <<>>
    /\ rv_assigned' = <<>>

\* x.__private = v  at the top level of the cell (outside the class)
Reverser_assign_outside(v) ==
    /\ rv_x # <<>>
    /\ rv_x' = SetAttr(rv_x, Mangle("__private", ""), v)
    /\ rv_assigned' = <<v>>
    /\ rv_out' = <<>>

\* x.get_reverse()
Reverser_get_reverse ==
    /\ rv_x # <<>>
    /\ rv_out' = <<rv_x[Mangle("__private", "Reverser")]>>
    /\ UNCHANGED <<rv_x, rv_assigned>>

RvNew    == \E name \in Names : Reverser_init(name) /\ UNCHANGED <<dogVars, mlVars, imVars, nbVars>>
RvAssign == \E v \in OutsideValues : Reverser_assign_outside(v) /\ UNCHANGED <<dogVars, mlVars, imVars, nbVars>>
RvGet    == Reverser_get_reverse /\ UNCHANGED <<dogVars, mlVars, imVars, nbVars>>

\* ---------------------------------------------------------------------
\* Dog
\* ---------------------------------------------------------------------
MaxDogs == 2
MaxTricks == 3
DogNames == {"Fido", "Buddy"}
Tricks == {"roll over", "play dead"}
Kinds == {"super-dog"}

DogInit ==
    /\ dog_heap = [r \in {1} |-> <<>>]
    /\ dog_class = [kind |-> "canine", tricks |-> 1]
    /\ dog_inst = <<>>
    /\ dog_added = <<>>

\* attribute lookup on an instance: the instance dict first, then the class
DogGetAttr(i, attr) ==
    IF attr \in DOMAIN dog_inst[i] THEN dog_inst[i][attr] ELSE dog_class[attr]

\* d = Dog(name): __init__ sets self.name only
Dog_init(name) ==
    /\ Len(dog_inst) < MaxDogs
    /\ dog_inst' = Append(dog_inst, [a \in {"name"} |-> name])
    /\ UNCHANGED <<dog_class, dog_heap, dog_added>>

\* A variant that rebinds the attribute on the instance to a new list.
Dog_add_trick_rebind(i, trick) ==
    LET r == Cardinality(DOMAIN dog_heap) + 1 IN
    /\ dog_heap' = [q \in (DOMAIN dog_heap) \cup {r} |->
                       IF q = r THEN Append(dog_heap[DogGetAttr(i, "tricks")], trick)
                       ELSE dog_heap[q]]
    /\ dog_inst' = [dog_inst EXCEPT ![i] = SetAttr(@, "tricks", r)]

\* self.tricks.append(trick): look the list up, mutate it in place
Dog_add_trick(i, trick) ==
    /\ dog_heap' = [dog_heap EXCEPT ![DogGetAttr(i, "tricks")] = Append(@, trick)]
    /\ dog_inst' = dog_inst

\* e.kind = 'super-dog': an assignment through the instance
Dog_set_kind(i, k) ==
    /\ dog_inst' = [dog_inst EXCEPT ![i] = SetAttr(@, "kind", k)]
    /\ UNCHANGED <<dog_class, dog_heap, dog_added>>

DogNew == \E name \in DogNames : Dog_init(name) /\ UNCHANGED <<rvVars, mlVars, imVars, nbVars>>
DogAddTrick ==
    \E i \in DOMAIN dog_inst, trick \in Tricks :
        /\ Len(dog_added) < MaxTricks
        /\ Dog_add_trick(i, trick)
        /\ dog_added' = Append(dog_added, trick)
        /\ UNCHANGED <<dog_class, rvVars, mlVars, imVars, nbVars>>
DogSetKind ==
    \E i \in DOMAIN dog_inst, k \in Kinds :
        /\ "kind" \notin DOMAIN dog_inst[i]
        /\ Dog_set_kind(i, k)
        /\ UNCHANGED <<rvVars, mlVars, imVars, nbVars>>

\* ---------------------------------------------------------------------
\* Breast-cancer workflow: data
\* ---------------------------------------------------------------------
NRows == 10                \* samples in the dataset (rows are numbered from 0)
MaxShift == 0              \* shuffles considered: i -> (a*i + b) % NRows, b <= MaxShift
NumPatterns == 3           \* column patterns a feature may follow
NumTargets == 2            \* label patterns considered
OutlierVal == 40           \* the value a perturbed test-set cell takes

\* d['feature_names'], and the same names as sorted() orders them
FeatureNames == <<"mean radius", "mean perimeter", "mean area">>
FeatureNamesSorted == <<"mean area", "mean perimeter", "mean radius">>
Features == {FeatureNames[i] : i \in 1..Len(FeatureNames)}

RangeIndex(n) == [i \in 1..n |-> i - 1]
SeqSet(s) == {s[i] : i \in 1..Len(s)}

RECURSIVE SumSeq(_)
SumSeq(s) == IF Len(s) = 0 THEN 0 ELSE Head(s) + SumSeq(Tail(s))

Bump(i) == IF (i % 4) \in {1, 2} THEN 6 ELSE 0
\* the value of a column following pattern k at row i
Pattern(k, i) ==
    CASE k = 1 -> i
      [] k = 2 -> i + Bump(i)
      [] k = 3 -> Bump(i)
      [] OTHER -> (i * i) % 7
\* the label of row i under label pattern k (both classes have >= 2 members)
TargetPattern(k, i) ==
    IF k = 1 THEN (IF i % 2 = 0 THEN 1 ELSE 0) ELSE (IF i % 3 = 0 THEN 1 ELSE 0)

\* the shuffles a random generator may produce: sequences of row numbers
Shuffle(a, b) == [k \in 1..NRows |-> (a * (k - 1) + b) % NRows]
Shuffles == {Shuffle(a, b) : a \in {1, 3}, b \in 0..MaxShift}
Orders == {o \in [1..Len(FeatureNames) -> Features] : SeqSet(o) = Features}

\* pd.DataFrame(data, columns=...): rows keyed by column name, a RangeIndex;
\* src is a ghost column: the sample (row of the dataset) each row stems from
DataFrame(data, columns) ==
    [index   |-> RangeIndex(Len(data)),
     columns |-> columns,
     values  |-> [i \in 1..Len(data) |->
                    [c \in SeqSet(columns) |->
                        data[i][CHOOSE j \in 1..Len(columns) : columns[j] = c]]],
     src     |-> RangeIndex(Len(data))]

\* pd.Series(values, index=..., name=...)
Series(values, index, src) == [index |-> index, values |-> values, src |-> src]

NoFrame == [index |-> <<>>, columns |-> <<>>, values |-> <<>>, src |-> <<>>]
NoSeries == [index |-> <<>>, values |-> <<>>, src |-> <<>>]

\* df[c] as a sequence of values
Column(df, c) == [i \in 1..Len(df.values) |-> df.values[i][c]]

\* df.loc[:, cols]
LocColumns(df, cols) ==
    [df EXCEPT !.columns = cols,
               !.values = [i \in 1..Len(df.values) |-> [c \in SeqSet(cols) |-> df.values[i][c]]]]

\* df.iloc[positions]: positional selection (positions count from 0)
ILocFrame(df, positions) ==
    [df EXCEPT !.index  = [k \in 1..Len(positions) |-> df.index[positions[k] + 1]],
               !.values = [k \in 1..Len(positions) |-> df.values[positions[k] + 1]],
               !.src    = [k \in 1..Len(positions) |-> df.src[positions[k] + 1]]]

\* series.iloc[positions]
ILocSeries(s, positions) ==
    [index  |-> [k \in 1..Len(positions) |-> s.index[positions[k] + 1]],
     values |-> [k \in 1..Len(positions) |-> s.values[positions[k] + 1]],
     src    |-> [k \in 1..Len(positions) |-> s.src[positions[k] + 1]]]

\* series[labels] with an integer index: selection by index label
LocSeries(s, labels) ==
    LET pos(l) == CHOOSE p \in 1..Len(s.index) : s.index[p] = l IN
    [index  |-> [k \in 1..Len(labels) |-> s.index[pos(labels[k])]],
     values |-> [k \in 1..Len(labels) |-> s.values[pos(labels[k])]],
     src    |-> [k \in 1..Len(labels) |-> s.src[pos(labels[k])]]]

\* ---------------------------------------------------------------------
\* Breast-cancer workflow: correlated features
\* ---------------------------------------------------------------------
CorrThresholdNum == 7
CorrThresholdDen == 10

\* Pearson correlation of x and y above 0.7, in exact integer arithmetic:
\* r = cov / sqrt(vx * vy) with cov = n*Sxy - Sx*Sy, vx = n*Sxx - Sx^2;
\* a constant column gives NaN, which is not above the threshold.
CorrAbove(x, y) ==
    LET n   == Len(x)
        sx  == SumSeq(x)
        sy  == SumSeq(y)
        sxy == SumSeq([i \in 1..n |-> x[i] * y[i]])
        sxx == SumSeq([i \in 1..n |-> x[i] * x[i]])
        syy == SumSeq([i \in 1..n |-> y[i] * y[i]])
        cov == n * sxy - sx * sy
        vx  == n * sxx - sx * sx
        vy  == n * syy - sy * sy
    IN  /\ vx > 0
        /\ vy > 0
        /\ cov > 0
        /\ CorrThresholdDen * CorrThresholdDen * cov * cov
              > CorrThresholdNum * CorrThresholdNum * vx * vy

\* feat_corr = df.corr(); diagonal set to NaN; .stack() drops the NaN;
\* high_corr = feat_corr[feat_corr > 0.7]: its index, the pairs (feat1, feat2)
HighCorr(df) ==
    {p \in SeqSet(df.columns) \X SeqSet(df.columns) :
        /\ p[1] # p[2]
        /\ CorrAbove(Column(df, p[1]), Column(df, p[2]))}

\* iteration over a set of str: the elements in the order the hashes of
\* this interpreter run put them
SetIter(S, hashorder) == SelectSeq(hashorder, LAMBDA f : f \in S)

\* sorted(S) for a set of column names
Sorted(S) == SelectSeq(FeatureNamesSorted, LAMBDA f : f \in S)

\* The loop body without the test on discarded.
PruneStepNoSkip(ns) ==
    LET feat1 == Head(ns.iter) IN
    [ns EXCEPT !.iter = Tail(ns.iter),
               !.saved = @ \cup {feat1},
               !.discarded = @ \cup {p[2] : p \in {q \in ns.high_corr : q[1] = feat1}}]

\* one pass of: for feat1 in {x[0] for x in high_corr.index}: ...
PruneStep(ns) ==
    LET feat1 == Head(ns.iter) IN
    IF feat1 \in ns.discarded
    THEN [ns EXCEPT !.iter = Tail(ns.iter)]
    ELSE [ns EXCEPT !.iter = Tail(ns.iter),
                    !.saved = @ \cup {feat1},
                    !.discarded = @ \cup {p[2] : p \in {q \in ns.high_corr : q[1] = feat1}}]

\* high_corr = feat_corr[feat_corr > 0.7]; discarded = set(); saved = set()
\* and the iterator of the for loop
CellHighCorr(ns) ==
    LET hc == HighCorr(ns.df) IN
    [ns EXCEPT !.high_corr = hc,
               !.discarded = {},
               !.saved = {},
               !.iter = SetIter({p[1] : p \in hc}, ns.hashorder)]

\* df = df.loc[:, sorted(set(df.columns) - discarded)]
CellFilterColumns(ns) ==
    [ns EXCEPT !.df = LocColumns(ns.df, Sorted(SeqSet(ns.df.columns) \ ns.discarded))]

\* ---------------------------------------------------------------------
\* Breast-cancer workflow: train / test splits
\* ---------------------------------------------------------------------
TestSizePct == 20          \* test_size=0.2
NumFolds == 10             \* cv=10
LinearSVC_default_C == 1
Pipeline_C == 2

\* target = pd.Series(d['target'], name='target')
Target == Series(ml_target, RangeIndex(Len(ml_target)), RangeIndex(Len(ml_target)))

\* n_test = ceil(test_size * n_samples)
NTest(n) == (n * TestSizePct + 99) \div 100

\* model_selection.train_test_split(df, test_size=0.2): one shuffle of the
\* positions, the first n_test go to the test set, the rest to the train set
TrainTestIndices(n, perm) ==
    [test  |-> SubSeq(perm, 1, NTest(n)),
     train |-> SubSeq(perm, NTest(n) + 1, n)]

\* _approximate_mode for two classes: n_draws spread over the classes in
\* proportion to counts, the remainder going to the larger fractional part
ApproxMode(counts, n_draws) ==
    LET total   == counts[0] + counts[1]
        floored == [c \in {0, 1} |-> (n_draws * counts[c]) \div total]
        rem     == [c \in {0, 1} |-> (n_draws * counts[c]) % total]
        need    == n_draws - floored[0] - floored[1]
        lucky   == IF rem[1] > rem[0] THEN 1 ELSE 0
    IN  [c \in {0, 1} |-> floored[c] + (IF need > 0 /\ c = lucky THEN 1 ELSE 0)]

\* next(StratifiedShuffleSplit(n_splits=1, test_size=0.2, random_state=42)
\*          .split(df, target)):
\* per class, the shuffled members: the first n_i to train, the next t_i to test
StratifiedIndices(y, perm) ==
    LET n       == Len(y)
        members == [c \in {0, 1} |-> SelectSeq(perm, LAMBDA i : y[i + 1] = c)]
        counts  == [c \in {0, 1} |-> Len(members[c])]
        n_i     == ApproxMode(counts, n - NTest(n))
        t_i     == ApproxMode([c \in {0, 1} |-> counts[c] - n_i[c]], NTest(n))
        train   == SeqSet(SubSeq(members[0], 1, n_i[0])) \cup SeqSet(SubSeq(members[1], 1, n_i[1]))
        test    == SeqSet(SubSeq(members[0], n_i[0] + 1, n_i[0] + t_i[0]))
                     \cup SeqSet(SubSeq(members[1], n_i[1] + 1, n_i[1] + t_i[1]))
    IN  [train |-> SelectSeq(perm, LAMBDA i : i \in train),
         test  |-> SelectSeq(perm, LAMBDA i : i \in test)]

\* df_train, df_test = model_selection.train_test_split(df, test_size=0.2)
CellTrainTestSplit(ns, perm) ==
    LET idx == TrainTestIndices(Len(ns.df.values), perm) IN
    [ns EXCEPT !.df_train = ILocFrame(ns.df, idx.train),
               !.df_test  = ILocFrame(ns.df, idx.test),
               !.split    = "train_test_split"]

\* target_train, target_test = target.iloc[df_train.index], target.iloc[df_test.index]
CellTargetILoc(ns) ==
    [ns EXCEPT !.target_train = ILocSeries(Target, ns.df_train.index),
               !.target_test  = ILocSeries(Target, ns.df_test.index)]

\* train_idx, test_idx = next(cv.split(df, target))
\* df_train, target_train = df.iloc[train_idx], target[train_idx]
\* df_test, target_test = df.iloc[test_idx], target[test_idx]
CellStratifiedSplit(ns) ==
    LET idx == StratifiedIndices(ml_target, ml_seeded) IN
    [ns EXCEPT !.train_idx    = idx.train,
               !.test_idx     = idx.test,
               !.df_train     = ILocFrame(ns.df, idx.train),
               !.target_train = LocSeries(Target, idx.train),
               !.df_test      = ILocFrame(ns.df, idx.test),
               !.target_test  = LocSeries(Target, idx.test),
               !.split        = "stratified"]

\* ---------------------------------------------------------------------
\* Breast-cancer workflow: transformers, estimators
\* ---------------------------------------------------------------------

\* StandardScaler().fit(X): per column the statistics that give mean_ and
\* var_ exactly: the count n, the sum s and the sum of squares q
ScalerFit(X) ==
    [c \in SeqSet(X.columns) |->
        LET col == Column(X, c) IN
        [n |-> Len(col), s |-> SumSeq(col),
         q |-> SumSeq([i \in 1..Len(col) |-> col[i] * col[i]])]]

\* scaler.transform(X): z = (x - mean) / std, kept exact as the pair
\* <<n*x - s, n*q - s^2>> = <<numerator, squared denominator>>;
\* a constant column has its scale set to 1
ScalerTransform(params, X) ==
    [X EXCEPT !.values = [i \in 1..Len(X.values) |->
        [c \in SeqSet(X.columns) |->
            LET p == params[c]
                v == p.n * p.q - p.s * p.s
            IN  <<p.n * X.values[i][c] - p.s, IF v = 0 THEN p.n * p.n ELSE v>>]]]

\* estimator.fit(X, y): the fitted state is a function of the
\* hyper-parameters and of the training data, kept symbolically
EstimatorFit(C, loss, X, y) == [C |-> C, loss |-> loss, X |-> X.values, y |-> y.values]
Unfitted(C, loss) == [C |-> C, loss |-> loss, X |-> <<>>, y |-> <<>>]

\* estimator.predict(X): one prediction per row of X, in the order of X;
\* a prediction is kept as the row it was computed from
Predict(X) == [i \in 1..Len(X.values) |-> [x |-> X.values[i]]]

\* an entry of the call history: the call, the variables it was given as
\* written in the cell, and the samples its arguments hold
Call(op, args, rows) == [op |-> op, args |-> args, rows |-> rows]

\* std_scaler = preprocessing.StandardScaler(); std_scaler.fit(df_train)
CellScalerFit(ns) ==
    [ns EXCEPT !.std_scaler = ScalerFit(ns.df_train),
               !.calls = Append(@, Call("std_scaler.fit", {"df_train"}, SeqSet(ns.df_train.src)))]

\* df_scaled = pd.DataFrame(std_scaler.fit_transform(df_train), columns=df_train.columns)
\* (the cell before it evaluates the same fit_transform for display)
CellDfScaled(ns) ==
    LET params == ScalerFit(ns.df_train)
        arr    == ScalerTransform(params, ns.df_train)
    IN  [ns EXCEPT !.std_scaler = params,
                   !.df_scaled = [index   |-> RangeIndex(Len(arr.values)),
                                  columns |-> ns.df_train.columns,
                                  values  |-> arr.values,
                                  src     |-> arr.src],
                   !.calls = Append(@, Call("std_scaler.fit_transform", {"df_train"},
                                            SeqSet(ns.df_train.src)))]

\* clf = svm.LinearSVC(); clf = clf.fit(df_scaled, target_train)
CellClfFit(ns) ==
    [ns EXCEPT !.clf = EstimatorFit(LinearSVC_default_C, "squared_hinge",
                                    ns.df_scaled, ns.target_train),
               !.calls = Append(@, Call("clf.fit", {"df_scaled", "target_train"},
                                        SeqSet(ns.df_scaled.src) \cup SeqSet(ns.target_train.src)))]

\* A prediction series left with the default RangeIndex.
CellPredictTrainRangeIndex(ns) ==
    [ns EXCEPT !.predict_train = Series(Predict(ns.df_scaled),
                                        RangeIndex(Len(ns.df_scaled.values)),
                                        ns.df_scaled.src),
               !.calls = Append(@, Call("clf.predict", {"df_scaled"}, SeqSet(ns.df_scaled.src)))]

\* predict_train = pd.Series(clf.predict(df_scaled), index=target_train.index,
\*                           name='prediction')
CellPredictTrain(ns) ==
    [ns EXCEPT !.predict_train = Series(Predict(ns.df_scaled),
                                        ns.target_train.index,
                                        ns.df_scaled.src),
               !.calls = Append(@, Call("clf.predict", {"df_scaled"}, SeqSet(ns.df_scaled.src)))]

\* left.to_frame().join(right.to_frame()): a left join on the index; every
\* left row is paired with each right row carrying its index label, or with
\* NaN when there is none
RECURSIVE JoinFrom(_, _, _)
JoinFrom(left, right, i) ==
    IF i > Len(left.index) THEN <<>>
    ELSE LET hits == SelectSeq([k \in 1..Len(right.index) |-> k],
                               LAMBDA k : right.index[k] = left.index[i])
             rows == IF hits = <<>>
                     THEN << [index |-> left.index[i], target |-> left.values[i],
                              target_src |-> left.src[i],
                              prediction |-> [x |-> <<>>], prediction_src |-> -1] >>
                     ELSE [h \in 1..Len(hits) |->
                             [index |-> left.index[i], target |-> left.values[i],
                              target_src |-> left.src[i],
                              prediction |-> right.values[hits[h]],
                              prediction_src |-> right.src[hits[h]]]]
         IN  rows \o JoinFrom(left, right, i + 1)
Join(left, right) == JoinFrom(left, right, 1)

\* combined = target_train.to_frame().join(predict_train.to_frame())
CellCombinedTrain(ns) ==
    [ns EXCEPT !.combined = Join(ns.target_train, ns.predict_train)]

\* model_selection.cross_val_score(clf, df_scaled, target_train, cv=10, ...)
CellCrossVal(ns) ==
    [ns EXCEPT !.calls = Append(@, Call("cross_val_score", {"df_scaled", "target_train"},
                                        SeqSet(ns.df_scaled.src) \cup SeqSet(ns.target_train.src)))]

\* clf = svm.LinearSVC(); grid_search = GridSearchCV(clf, ...);
\* grid_search.fit(df_scaled, target_train)
CellGridSearch(ns) ==
    [ns EXCEPT !.clf = Unfitted(LinearSVC_default_C, "squared_hinge"),
               !.grid_search = [cv |-> NumFolds, X |-> ns.df_scaled.values,
                                y |-> ns.target_train.values],
               !.calls = Append(@, Call("grid_search.fit", {"df_scaled", "target_train"},
                                        SeqSet(ns.df_scaled.src) \cup SeqSet(ns.target_train.src)))]

\* Pipeline.fit(X, y): the scaler is fitted on X, the classifier on the
\* scaled X
PipelineFit(X, y) ==
    LET params == ScalerFit(X) IN
    [scaler |-> params,
     classifier |-> EstimatorFit(Pipeline_C, "hinge", ScalerTransform(params, X), y)]

\* A predict that fits the scaler again, on the data it is given.
PipelinePredictRefit(pipe, X) == Predict(ScalerTransform(ScalerFit(X), X))

\* Pipeline.predict(X): X goes through the fitted scaler's transform and
\* then to the classifier's predict
PipelinePredict(pipe, X) == Predict(ScalerTransform(pipe.scaler, X))

\* breast_pipeline = pipeline.Pipeline([('scaler', StandardScaler()),
\*                           ('classifier', svm.LinearSVC(C=2., loss='hinge'))])
\* breast_pipeline = breast_pipeline.fit(df_train, target_train)
\* breast_pipeline.predict(df_test)
CellPipelineFit(ns) ==
    [ns EXCEPT !.breast_pipeline = PipelineFit(ns.df_train, ns.target_train),
               !.calls = @ \o << Call("breast_pipeline.fit", {"df_train", "target_train"},
                                      SeqSet(ns.df_train.src) \cup SeqSet(ns.target_train.src)),
                                 Call("breast_pipeline.predict", {"df_test"},
                                      SeqSet(ns.df_test.src)) >>]

\* predict_test = pd.Series(breast_pipeline.predict(df_test),
\*                          index=target_test.index, name='prediction')
\* combined = target_test.to_frame().join(predict_test.to_frame())
CellPredictTest(ns) ==
    LET pt == Series(PipelinePredict(ns.breast_pipeline, ns.df_test),
                     ns.target_test.index, ns.df_test.src)
    IN  [ns EXCEPT !.predict_test = pt,
                   !.combined = Join(ns.target_test, pt),
                   !.calls = Append(@, Call("breast_pipeline.predict", {"df_test"},
                                            SeqSet(ns.df_test.src)))]

\* ---------------------------------------------------------------------
\* Breast-cancer workflow: the notebook, cell by cell
\* ---------------------------------------------------------------------

\* d['data'] for a choice of column patterns: rows of values by column position
Dataset(k) == [i \in 1..NRows |-> [j \in 1..Len(FeatureNames) |-> Pattern(k[j], i - 1)]]
Datasets == {Dataset(k) : k \in [1..Len(FeatureNames) -> 1..NumPatterns]}
Targets == {[i \in 1..NRows |-> TargetPattern(k, i - 1)] : k \in 1..NumTargets}

\* the dataset with the cell (row, column) replaced by an outlier
Perturb(data, cell) ==
    IF cell[1] < 0 THEN data
    ELSE [data EXCEPT ![cell[1] + 1][cell[2]] = OutlierVal]

\* the namespace after the cells that load the data:
\* df = pd.DataFrame(d['data'], columns=d['feature_names'])
NsLoaded(data, order) ==
    [hashorder |-> order, data |-> data, df |-> DataFrame(data, FeatureNames),
     high_corr |-> {}, discarded |-> {}, saved |-> {}, iter |-> <<>>,
     split |-> "none", train_idx |-> <<>>, test_idx |-> <<>>,
     df_train |-> NoFrame, df_test |-> NoFrame,
     target_train |-> NoSeries, target_test |-> NoSeries,
     std_scaler |-> <<>>, df_scaled |-> NoFrame,
     clf |-> Unfitted(LinearSVC_default_C, "squared_hinge"),
     predict_train |-> NoSeries, combined |-> <<>>,
     grid_search |-> [cv |-> NumFolds, X |-> <<>>, y |-> <<>>],
     breast_pipeline |-> [scaler |-> <<>>, classifier |-> Unfitted(Pipeline_C, "hinge")],
     predict_test |-> NoSeries, calls |-> <<>>]

MLIdle ==
    /\ ml_pc = "idle"
    /\ ml_ns = <<>>
    /\ ml_target = <<>>
    /\ ml_seeded = <<>>

\* one run of the notebook on a dataset
MLInitOne ==
    /\ ml_pc = "high_corr"
    /\ ml_target \in Targets
    /\ ml_seeded \in Shuffles
    /\ \E data \in Datasets, order \in Orders :
          ml_ns = [r \in {1} |-> NsLoaded(data, order)]

\* the datasets whose columns follow pairwise different patterns
DatasetsDistinct ==
    {Dataset(k) : k \in {q \in [1..Len(FeatureNames) -> 1..NumPatterns] :
                            \A i, j \in DOMAIN q : q[i] = q[j] => i = j}}

\* two runs of the notebook, on datasets that differ at most in one feature
\* value of one row that the stratified split puts in the test set
MLInitTwo ==
    /\ ml_pc = "high_corr"
    /\ ml_target \in Targets
    /\ ml_seeded \in Shuffles
    /\ \E data \in DatasetsDistinct, o1 \in Orders, o2 \in Orders :
       \E cell \in {<<-1, -1>>} \cup
                   (SeqSet(StratifiedIndices(ml_target, ml_seeded).test)
                       \X (1..Len(FeatureNames))) :
          ml_ns = [r \in {1, 2} |-> IF r = 1 THEN NsLoaded(data, o1)
                                    ELSE NsLoaded(Perturb(data, cell), o2)]

Runs == DOMAIN ml_ns

\* the cell at position pc runs in every run and leaves the namespaces
\* ns, then the notebook is at nxt
RunCell(pc, nxt, ns) ==
    /\ ml_pc = pc
    /\ ml_pc' = nxt
    /\ ml_ns' = ns
    /\ UNCHANGED <<ml_target, ml_seeded, rvVars, dogVars, imVars, nbVars>>

RunHighCorr == RunCell("high_corr", "prune", [r \in Runs |-> CellHighCorr(ml_ns[r])])

RunPruneStep ==
    /\ ml_pc = "prune"
    /\ \E r \in Runs : ml_ns[r].iter # <<>>
    /\ ml_ns' = [r \in Runs |-> IF ml_ns[r].iter # <<>> THEN PruneStep(ml_ns[r])
                                ELSE ml_ns[r]]
    /\ UNCHANGED <<ml_pc, ml_target, ml_seeded, rvVars, dogVars, imVars, nbVars>>

RunFilterColumns ==
    /\ \A r \in Runs : ml_ns[r].iter = <<>>
    /\ RunCell("prune", "train_test_split", [r \in Runs |-> CellFilterColumns(ml_ns[r])])

\* the unseeded shuffle differs from run to run
RunTrainTestSplit ==
    /\ ml_pc = "train_test_split"
    /\ ml_pc' = "target_iloc"
    /\ \E perm \in [Runs -> Shuffles] :
          ml_ns' = [r \in Runs |-> CellTrainTestSplit(ml_ns[r], perm[r])]
    /\ UNCHANGED <<ml_target, ml_seeded, rvVars, dogVars, imVars, nbVars>>

RunTargetILoc      == RunCell("target_iloc", "stratified_split", [r \in Runs |-> CellTargetILoc(ml_ns[r])])
RunStratifiedSplit == RunCell("stratified_split", "scaler_fit", [r \in Runs |-> CellStratifiedSplit(ml_ns[r])])
RunScalerFit       == RunCell("scaler_fit", "df_scaled", [r \in Runs |-> CellScalerFit(ml_ns[r])])
RunDfScaled        == RunCell("df_scaled", "clf_fit", [r \in Runs |-> CellDfScaled(ml_ns[r])])
RunClfFit          == RunCell("clf_fit", "predict_train", [r \in Runs |-> CellClfFit(ml_ns[r])])
RunPredictTrain    == RunCell("predict_train", "combined_train", [r \in Runs |-> CellPredictTrain(ml_ns[r])])
RunCombinedTrain   == RunCell("combined_train", "cross_val", [r \in Runs |-> CellCombinedTrain(ml_ns[r])])
RunCrossVal        == RunCell("cross_val", "grid_search", [r \in Runs |-> CellCrossVal(ml_ns[r])])
RunGridSearch      == RunCell("grid_search", "pipeline_fit", [r \in Runs |-> CellGridSearch(ml_ns[r])])
RunPipelineFit     == RunCell("pipeline_fit", "predict_test", [r \in Runs |-> CellPipelineFit(ml_ns[r])])
RunPredictTest     == RunCell("predict_test", "done", [r \in Runs |-> CellPredictTest(ml_ns[r])])

MLNext ==
    \/ RunHighCorr
    \/ RunPruneStep
    \/ RunFilterColumns
    \/ RunTrainTestSplit
    \/ RunTargetILoc
    \/ RunStratifiedSplit
    \/ RunScalerFit
    \/ RunDfScaled
    \/ RunClfFit
    \/ RunPredictTrain
    \/ RunCombinedTrain
    \/ RunCrossVal
    \/ RunGridSearch
    \/ RunPipelineFit
    \/ RunPredictTest

\* ---------------------------------------------------------------------
\* Bioimage analysis: arrays
\* ---------------------------------------------------------------------
NPix == 4                  \* the image has shape (1, NPix); pixels are numbered 1..NPix
MaxAct == 1                \* intensities of the actin channel: 0..MaxAct
PH3Bright == 50            \* a pH3 pixel is 0 or PH3Bright
Percentile == 5            \* np.percentile(act, 5)
MitosisThreshold == 20     \* propdict_pH3['mean_intensity'] > 20

Pixels == 1..NPix
Masks == [Pixels -> BOOLEAN]

MaxOf(S) == CHOOSE m \in S : \A x \in S : x <= m
MinOf(S) == CHOOSE m \in S : \A x \in S : m <= x
Values(arr) == {arr[p] : p \in DOMAIN arr}

RECURSIVE SumOver(_, _)
SumOver(arr, S) ==
    IF S = {} THEN 0
    ELSE LET p == CHOOSE q \in S : TRUE IN arr[p] + SumOver(arr, S \ {p})

\* ndi.label(mask)[0] on an image of one row: every run of True pixels is
\* one object, the objects are numbered 1, 2, ... from the left
Label(mask) ==
    [p \in Pixels |->
        IF mask[p]
        THEN Cardinality({q \in 1..p : mask[q] /\ (q = 1 \/ ~mask[q - 1])})
        ELSE 0]

\* sorted(arr)[k], k counted from 0
Kth(arr, k) ==
    CHOOSE v \in Values(arr) :
        /\ Cardinality({p \in DOMAIN arr : arr[p] < v}) <= k
        /\ k < Cardinality({p \in DOMAIN arr : arr[p] <= v})

\* 100 * np.percentile(arr, q): linear interpolation between the two order
\* statistics around the rank q/100 * (n - 1)
Percentile100(arr, q) ==
    LET n    == Cardinality(DOMAIN arr)
        k    == (q * (n - 1)) \div 100
        frac == (q * (n - 1)) % 100
        lo   == Kth(arr, k)
        hi   == IF k + 1 < n THEN Kth(arr, k + 1) ELSE lo
    IN  100 * lo + frac * (hi - lo)

\* act_bgsub = act - np.percentile(act,5); act_bgsub[act < np.percentile(act,5)] = 0
\* (values kept exact, multiplied by 100)
ActBgSub(act) ==
    LET p100 == Percentile100(act, Percentile) IN
    [p \in Pixels |-> IF 100 * act[p] < p100 THEN 0 ELSE 100 * act[p] - p100]

\* A copy that hands back the array it was given.
NpCopyAlias(heap, ref) == [heap |-> heap, ref |-> ref]

\* np.copy(a): a new array holding the values of a
NpCopy(heap, ref) ==
    LET new == Cardinality(DOMAIN heap) + 1 IN
    [heap |-> [r \in (DOMAIN heap) \cup {new} |-> IF r = new THEN heap[ref] ELSE heap[r]],
     ref  |-> new]

\* a[mask] = v, in place
MaskedAssign(arr, mask, v) == [p \in DOMAIN arr |-> IF mask[p] THEN v ELSE arr[p]]

\* the outcomes of segmentation.watershed(image, markers): every marked
\* pixel keeps its marker and every other pixel takes one of the markers
WatershedOutcomes(markers) ==
    LET labels == Values(markers) \ {0} IN
    IF labels = {} THEN {[p \in Pixels |-> 0]}
    ELSE {w \in [Pixels -> labels] : \A p \in Pixels : markers[p] # 0 => w[p] = markers[p]}

\* ---------------------------------------------------------------------
\* Bioimage analysis: region properties
\* ---------------------------------------------------------------------
Val(type, v) == [type |-> type, v |-> v]

\* the properties of the region of label l: scalars (int, float), tuples
\* and arrays; a float is kept exact as <<numerator, denominator>>
Region(label_image, intensity_image, l) ==
    LET P == {p \in Pixels : label_image[p] = l} IN
    [name \in {"label", "area", "bbox", "bbox_area", "coords", "euler_number",
               "max_intensity", "mean_intensity"} |->
        CASE name = "label"          -> Val("int", l)
          [] name = "area"           -> Val("int", Cardinality(P))
          [] name = "bbox"           -> Val("tuple", <<0, MinOf(P) - 1, 1, MaxOf(P)>>)
          [] name = "bbox_area"      -> Val("int", MaxOf(P) - MinOf(P) + 1)
          [] name = "coords"         -> Val("ndarray", {<<0, p - 1>> : p \in P})
          [] name = "euler_number"   ->
                Val("int", Cardinality({p \in P : p - 1 \notin P}))
          [] name = "max_intensity"  -> Val("int", MaxOf({intensity_image[p] : p \in P}))
          [] name = "mean_intensity" ->
                Val("float", <<SumOver(intensity_image, P), Cardinality(P)>>)]

\* measure.regionprops(label_image, intensity_image=...): one region per
\* label present in the image, by increasing label
RegionProps(label_image, intensity_image) ==
    LET present == SelectSeq([l \in 1..MaxOf(Values(label_image) \cup {0}) |-> l],
                             LAMBDA l : l \in Values(label_image))
    IN  [i \in 1..Len(present) |-> Region(label_image, intensity_image, present[i])]

\* Prop names kept when only tuples count as non-scalar.
Props2DictKeysTupleOnly(props) ==
    {name \in DOMAIN props[1] : props[1][name].type # "tuple"}

\* {prop_name: [] for prop_name in props[0]
\*    if not (type(props[0][prop_name]) in [tuple, np.ndarray])}
Props2DictKeys(props) ==
    {name \in DOMAIN props[1] : props[1][name].type \notin {"tuple", "ndarray"}}

\* np.array(values): the values in order, with one element type
NpArray(values) ==
    [dtype |-> IF \E i \in 1..Len(values) : values[i].type = "float" THEN "float64"
               ELSE IF \E i \in 1..Len(values) : values[i].type \notin {"int", "float"} THEN "object"
               ELSE "int64",
     data  |-> [i \in 1..Len(values) |-> values[i].v]]

\* props2dict(props), for a non-empty list: for each kept prop name the
\* values of that prop over the regions, in the order of the list
Props2Dict(props) ==
    [name \in Props2DictKeys(props) |->
        NpArray([i \in 1..Len(props) |-> props[i][name]])]

\* A props2dict that answers an empty region list with an empty dict.
Props2DictCallEmptyDict(props) ==
    IF Len(props) = 0 THEN [raised |-> "", value |-> <<>>]
    ELSE [raised |-> "", value |-> Props2Dict(props)]

\* the call props2dict(props): props[0] raises IndexError when the list is
\* empty, and nothing in the function or around the call catches it
Props2DictCall(props) ==
    IF Len(props) = 0 THEN [raised |-> "IndexError"]
    ELSE [raised |-> "", value |-> Props2Dict(props)]

\* pd.DataFrame(dict).drop(names, axis=1)
DropColumns(d, names) == [c \in (DOMAIN d) \ names |-> d[c]]

\* ---------------------------------------------------------------------
\* Bioimage analysis: the notebook, cell by cell
\* ---------------------------------------------------------------------
\* a name of the namespace that no statement has assigned yet
Unassigned == [unassigned |-> TRUE]

\* the Hoechst channel: brighter where the mask is set
NucImage(mask) == [p \in Pixels |-> IF mask[p] THEN 100 + p ELSE p]

\* Normalisation by the maximum alone.
NormalizeByMax(image) ==
    [p \in DOMAIN image |-> <<image[p], MaxOf(Values(image))>>]

\* (image.astype(np.float) - image.min()) / (image.max() - image.min()):
\* every float is kept exact as <<numerator, denominator>>; with a zero
\* divisor the quotient 0.0 / 0 is nan, kept as <<0, 0>>
Normalize(image) ==
    [p \in DOMAIN image |->
        <<image[p] - MinOf(Values(image)), MaxOf(Values(image)) - MinOf(Values(image))>>]

\* the namespace after the subplot cell: the three channels and the loop
\* variable image, which the loop over [nuc,pH3,act] leaves at act; nuc_mask
\* is the mask that "Apply threshold" finds in nuc
ImLoaded(mask, act, pH3) ==
    [nuc_mask |-> mask, nuc |-> NucImage(mask), pH3 |-> pH3, act |-> act,
     image |-> act, rgb |-> <<>>,
     nuc_labeled |-> 0, act_bgsub |-> <<>>, seeds |-> 0, act_ws |-> 0,
     bg_seed |-> 0,
     nuc_props_nuc |-> <<>>, nuc_props_pH3 |-> <<>>, nuc_props_act |-> <<>>,
     propdict_pH3 |-> Unassigned, propdict_act |-> Unassigned, propdf |-> Unassigned,
     nuc_propcolored |-> <<>>, ground_truth |-> <<>>,
     svc |-> [X |-> <<>>, y |-> <<>>]]

ImIdle ==
    /\ im_pc = "idle"
    /\ im_heap = <<>>
    /\ im_ns = <<>>

ImInit ==
    /\ im_pc = "rgb"
    /\ im_heap = <<>>
    /\ \E mask \in Masks, act \in [Pixels -> 0..MaxAct], pH3 \in [Pixels -> {0, PH3Bright}] :
          im_ns = ImLoaded(mask, act, pH3)

\* allocation of a new array on the heap
Alloc(heap, arr) ==
    LET new == Cardinality(DOMAIN heap) + 1 IN
    [heap |-> [r \in (DOMAIN heap) \cup {new} |-> IF r = new THEN arr ELSE heap[r]],
     ref  |-> new]

\* rgb = np.zeros(image.shape+(3,))
\* for i,image in enumerate([act,pH3,nuc]):
\*     rgb[:,:,i] = (image.astype(np.float) - image.min()) / (image.max() - image.min())
CellRgb ==
    /\ im_pc = "rgb"
    /\ LET channels == <<im_ns.act, im_ns.pH3, im_ns.nuc>>
           zeros    == [i \in 0..2 |-> [p \in DOMAIN im_ns.image |-> <<0, 1>>]]
       IN  im_ns' = [im_ns EXCEPT
               !.rgb = [i \in DOMAIN zeros |-> Normalize(channels[i + 1])],
               !.image = channels[3]]
    /\ im_pc' = "label"
    /\ UNCHANGED im_heap

\* nuc_labeled = ndi.label(nuc_mask)[0]
CellLabel ==
    /\ im_pc = "label"
    /\ LET a == Alloc(im_heap, Label(im_ns.nuc_mask)) IN
          /\ im_heap' = a.heap
          /\ im_ns' = [im_ns EXCEPT !.nuc_labeled = a.ref]
    /\ im_pc' = "bgsub"

\* act_bgsub = act - np.percentile(act,5); act_bgsub[act < np.percentile(act,5)] = 0
CellActBgSub ==
    /\ im_pc = "bgsub"
    /\ im_ns' = [im_ns EXCEPT !.act_bgsub = ActBgSub(im_ns.act)]
    /\ im_pc' = "seeds"
    /\ UNCHANGED im_heap

\* seeds = np.copy(nuc_labeled)
\* seeds[act_bgsub==0] = nuc_labeled.max()+1
CellSeeds ==
    /\ im_pc = "seeds"
    /\ LET c  == NpCopy(im_heap, im_ns.nuc_labeled)
           bg == MaxOf(Values(c.heap[im_ns.nuc_labeled])) + 1
       IN  /\ im_heap' = [c.heap EXCEPT ![c.ref] =
                            MaskedAssign(@, [p \in Pixels |-> im_ns.act_bgsub[p] = 0], bg)]
           /\ im_ns' = [im_ns EXCEPT !.seeds = c.ref, !.bg_seed = bg]
    /\ im_pc' = "watershed"

\* act_ws = segmentation.watershed(act_sobel, seeds)
\* act_ws[act_ws==nuc_labeled.max()+1] = 0
CellWatershed ==
    /\ im_pc = "watershed"
    /\ \E w \in WatershedOutcomes(im_heap[im_ns.seeds]) :
          LET a  == Alloc(im_heap, w)
              bg == MaxOf(Values(a.heap[im_ns.nuc_labeled])) + 1
          IN  /\ im_heap' = [a.heap EXCEPT ![a.ref] =
                               MaskedAssign(@, [p \in Pixels |-> a.heap[a.ref][p] = bg], 0)]
              /\ im_ns' = [im_ns EXCEPT !.act_ws = a.ref]
    /\ im_pc' = "regionprops"

\* The cell with the actin properties measured on the watershed labels.
RegionPropsActOnCells(ns, heap) == RegionProps(heap[ns.act_ws], ns.act)

\* nuc_props_act = measure.regionprops(nuc_labeled, intensity_image=act)
RegionPropsAct(ns, heap) == RegionProps(heap[ns.nuc_labeled], ns.act)

\* nuc_props_nuc = measure.regionprops(nuc_labeled, intensity_image=nuc)
\* nuc_props_pH3 = measure.regionprops(nuc_labeled, intensity_image=pH3)
\* nuc_props_act = measure.regionprops(nuc_labeled, intensity_image=act)
CellRegionProps ==
    /\ im_pc = "regionprops"
    /\ im_ns' = [im_ns EXCEPT
            !.nuc_props_nuc = RegionProps(im_heap[im_ns.nuc_labeled], im_ns.nuc),
            !.nuc_props_pH3 = RegionProps(im_heap[im_ns.nuc_labeled], im_ns.pH3),
            !.nuc_props_act = RegionPropsAct(im_ns, im_heap)]
    /\ im_pc' = "props2dict"
    /\ UNCHANGED im_heap

\* propdict_pH3 = props2dict(nuc_props_pH3); propdict_act = props2dict(nuc_props_act)
\* propdf = pd.DataFrame(props2dict(nuc_props_nuc))
\* propdf = propdf.drop(['bbox_area', 'euler_number'], axis=1)
\* With an empty list props[0] raises IndexError and the cell stops at that
\* statement, the assignments before it done.
CellProps2Dict ==
    /\ im_pc = "props2dict"
    /\ LET pH3 == Props2DictCall(im_ns.nuc_props_pH3)
           act == Props2DictCall(im_ns.nuc_props_act)
           nuc == Props2DictCall(im_ns.nuc_props_nuc)
       IN  IF pH3.raised # ""
           THEN /\ im_pc' = pH3.raised
                /\ UNCHANGED im_ns
           ELSE IF act.raised # ""
           THEN /\ im_pc' = act.raised
                /\ im_ns' = [im_ns EXCEPT !.propdict_pH3 = pH3.value]
           ELSE IF nuc.raised # ""
           THEN /\ im_pc' = nuc.raised
                /\ im_ns' = [im_ns EXCEPT !.propdict_pH3 = pH3.value,
                                          !.propdict_act = act.value]
           ELSE /\ im_pc' = "backmap"
                /\ im_ns' = [im_ns EXCEPT
                        !.propdict_pH3 = pH3.value,
                        !.propdict_act = act.value,
                        !.propdf = DropColumns(nuc.value, {"bbox_area", "euler_number"})]
    /\ UNCHANGED im_heap

\* the loop of the backmapping cell, from row on (it stops where the
\* property array ends):
\* nuc_propcolored[nuc_labeled==label] = propdict_act[color_prop][row]
RECURSIVE Backmap(_, _, _, _, _)
Backmap(colored, labels, prop, nuc_labeled, row) ==
    IF row > Len(labels) \/ row > Len(prop) THEN colored
    ELSE Backmap(MaskedAssign(colored, [p \in Pixels |-> nuc_labeled[p] = labels[row]],
                              prop[row]),
                 labels, prop, nuc_labeled, row + 1)

\* color_prop = 'area'; nuc_propcolored = np.zeros(nuc.shape)
\* for row,label in enumerate(propdf.label): ...
\* (a row beyond the end of propdict_act[color_prop] raises IndexError)
CellBackmap ==
    /\ im_pc = "backmap"
    /\ im_ns' = [im_ns EXCEPT !.nuc_propcolored =
            Backmap([p \in Pixels |-> 0], im_ns.propdf["label"].data,
                    im_ns.propdict_act["area"].data, im_heap[im_ns.nuc_labeled], 1)]
    /\ im_pc' = IF Len(im_ns.propdict_act["area"].data) < Len(im_ns.propdf["label"].data)
                THEN "IndexError" ELSE "ground_truth"
    /\ UNCHANGED im_heap

\* ground_truth = propdict_pH3['mean_intensity'] > 20
CellGroundTruth ==
    /\ im_pc = "ground_truth"
    /\ im_ns' = [im_ns EXCEPT !.ground_truth =
            LET m == im_ns.propdict_pH3["mean_intensity"].data IN
            [i \in 1..Len(m) |-> m[i][1] > MitosisThreshold * m[i][2]]]
    /\ im_pc' = "svc_fit"
    /\ UNCHANGED im_heap

\* propdf_stand = (propdf - propdf.mean()) / propdf.std()
\* svc = svm.SVC(); svc.fit(propdf_stand, ground_truth)
\* (the rows given to fit are kept by the label of their nucleus)
CellSvcFit ==
    /\ im_pc = "svc_fit"
    /\ im_ns' = [im_ns EXCEPT !.svc = [X |-> im_ns.propdf["label"].data,
                                       y |-> im_ns.ground_truth]]
    /\ im_pc' = "done"
    /\ UNCHANGED im_heap

ImNext ==
    \/ CellRgb /\ UNCHANGED <<rvVars, dogVars, mlVars, nbVars>>
    \/ CellLabel /\ UNCHANGED <<rvVars, dogVars, mlVars, nbVars>>
    \/ CellActBgSub /\ UNCHANGED <<rvVars, dogVars, mlVars, nbVars>>
    \/ CellSeeds /\ UNCHANGED <<rvVars, dogVars, mlVars, nbVars>>
    \/ CellWatershed /\ UNCHANGED <<rvVars, dogVars, mlVars, nbVars>>
    \/ CellRegionProps /\ UNCHANGED <<rvVars, dogVars, mlVars, nbVars>>
    \/ CellProps2Dict /\ UNCHANGED <<rvVars, dogVars, mlVars, nbVars>>
    \/ CellBackmap /\ UNCHANGED <<rvVars, dogVars, mlVars, nbVars>>
    \/ CellGroundTruth /\ UNCHANGED <<rvVars, dogVars, mlVars, nbVars>>
    \/ CellSvcFit /\ UNCHANGED <<rvVars, dogVars, mlVars, nbVars>>

\* ---------------------------------------------------------------------
\* The notebooks as sequences of cells: which names every statement reads
\* and binds in the kernel's global namespace
\* ---------------------------------------------------------------------
\* the names of the builtins module the notebooks read
Builtins ==
    {"bool", "dir", "enumerate", "int", "len", "next", "print", "range", "set",
     "sorted", "str", "tuple", "type", "zip"}

\* a simple statement at its source line: the global names it reads, then
\* the global names it binds
Stmt(line, reads, binds) ==
    [line |-> line, reads |-> reads, binds |-> binds, kind |-> "value",
     frees |-> {}, raises |-> "", body |-> 0, always |-> TRUE]

\* import ... / from ... import ...
Import(line, binds) == [Stmt(line, {}, binds) EXCEPT !.kind = "module"]

\* def name(...): the body runs when the function is called and then reads
\* the global names frees
Function(line, binds, frees) ==
    [Stmt(line, {}, binds) EXCEPT !.kind = "function", !.frees = frees]

\* class name(bases): reads are the bases, frees the global names the
\* methods read when they are called
Class(line, reads, binds, frees) ==
    [Stmt(line, reads, binds) EXCEPT !.kind = "class", !.frees = frees]

\* name = SomeClass(...), SomeClass a class defined in the notebook
Instance(line, reads, binds) == [Stmt(line, reads, binds) EXCEPT !.kind = "instance"]

\* for targets in iterable: / while test: followed by the body statements;
\* always says that the code itself (a literal sequence) makes the body run
Loop(line, reads, binds, body, always) ==
    [Stmt(line, reads, binds) EXCEPT !.kind = "loop", !.body = body, !.always = always]

\* a statement whose evaluation ends in the error the notebook shows
Raising(stmt, error) == [stmt EXCEPT !.raises = error]

\* a code cell, named by its first source line
Cell(line, code) == [line |-> line, code |-> code]

\* the code cells of the object-oriented notebook, statement by statement
OopCells ==
    <<
    Cell(49, <<
        Stmt(49, {"bool", "dir", "print"}, {})
    >>),
    Cell(72, <<
        Function(72, {"f"}, {"print"}),
        Stmt(76, {}, {"x"}),
        Stmt(77, {"f"}, {}),
        Stmt(78, {"print", "x"}, {})
    >>),
    Cell(96, <<
        Stmt(96, {}, {"x"}),
        Stmt(97, {"range"}, {"a"}),
        Stmt(98, {"a", "print"}, {}),
        Stmt(99, {"print", "x"}, {})
    >>),
    Cell(131, <<
        Import(131, {"math"}),
        Import(132, {"numpy"}),
        Stmt(133, {"math", "numpy", "print"}, {}),
        Stmt(136, {"math"}, {}),
        Stmt(138, {"math", "numpy", "print"}, {})
    >>),
    Cell(194, <<
        Class(194, {}, {"MyClass"}, {})
    >>),
    Cell(222, <<
        Instance(222, {"MyClass"}, {"x"}),
        Stmt(223, {"print", "x"}, {}),
        Stmt(224, {"print", "x"}, {}),
        Stmt(225, {"print", "x"}, {})
    >>),
    Cell(236, <<
        Stmt(236, {"print", "x"}, {}),
        Stmt(237, {"x"}, {}),
        Stmt(238, {"print", "x"}, {})
    >>),
    Cell(256, <<
        Class(256, {}, {"Complex"}, {"print"})
    >>),
    Cell(273, <<
        Raising(Instance(273, {"Complex"}, {"x"}), "TypeError")
    >>),
    Cell(284, <<
        Instance(284, {"Complex"}, {"x"}),
        Stmt(285, {"x"}, {})
    >>),
    Cell(305, <<
        Stmt(305, {"x"}, {})
    >>),
    Cell(316, <<
        Stmt(316, {"Complex", "x"}, {})
    >>),
    Cell(334, <<
        Stmt(334, {"x"}, {}),
        Loop(335, {"x"}, {}, 1, TRUE),
        Stmt(336, {"x"}, {}),
        Stmt(337, {"print", "x"}, {}),
        Stmt(338, {"x"}, {})
    >>),
    Cell(349, <<
        Raising(Stmt(349, {"x"}, {}), "AttributeError")
    >>),
    Cell(369, <<
        Class(369, {}, {"Dog"}, {})
    >>),
    Cell(387, <<
        Instance(387, {"Dog"}, {"d"}),
        Instance(388, {"Dog"}, {"e"}),
        Stmt(391, {"d", "print"}, {}),
        Stmt(392, {"e", "print"}, {}),
        Stmt(395, {"d", "print"}, {}),
        Stmt(396, {"e", "print"}, {})
    >>),
    Cell(416, <<
        Class(416, {}, {"Dog"}, {}),
        Instance(430, {"Dog"}, {"d"}),
        Instance(431, {"Dog"}, {"e"}),
        Stmt(434, {"d"}, {}),
        Stmt(435, {"e"}, {}),
        Stmt(438, {"e"}, {}),
        Stmt(440, {"d", "print"}, {}),
        Stmt(441, {"d", "print"}, {})
    >>),
    Cell(464, <<
        Class(465, {}, {"Sequence"}, {}),
        Class(472, {"Sequence"}, {"Dna"}, {"str"}),
        Class(480, {"Sequence"}, {"Protein"}, {"len"})
    >>),
    Cell(493, <<
        Instance(493, {"Dna"}, {"dna"}),
        Stmt(494, {"dna"}, {})
    >>),
    Cell(505, <<
        Instance(505, {"Protein"}, {"prot"}),
        Raising(Stmt(506, {"prot"}, {}), "AttributeError")
    >>),
    Cell(517, <<
        Instance(517, {"Protein"}, {"prot"}),
        Stmt(518, {"prot"}, {})
    >>),
    Cell(536, <<
        Class(536, {"int"}, {"BetterInt"}, {"bool"})
    >>),
    Cell(549, <<
        Instance(549, {"BetterInt"}, {"x"}),
        Stmt(550, {"x"}, {})
    >>),
    Cell(578, <<
        Class(578, {}, {"Reverser"}, {}),
        Instance(586, {"Reverser"}, {"x"}),
        Stmt(587, {"print", "x"}, {}),
        Stmt(588, {"print", "x"}, {}),
        Stmt(589, {"x"}, {}),
        Stmt(590, {"print", "x"}, {})
    >>),
    Cell(610, <<
        Class(610, {}, {"Reverser"}, {}),
        Instance(618, {"Reverser"}, {"x"}),
        Stmt(619, {"print", "x"}, {}),
        Stmt(620, {"print", "x"}, {}),
        Stmt(621, {"x"}, {}),
        Stmt(622, {"print", "x"}, {})
    >>),
    Cell(640, <<
        Stmt(640, {"print", "x"}, {}),
        Stmt(641, {"print", "x"}, {})
    >>),
    Cell(662, <<
        Stmt(662, {}, {"x"}),
        Stmt(663, {}, {"y"}),
        Stmt(664, {"x"}, {})
    >>),
    Cell(682, <<
        Stmt(682, {}, {"x"}),
        Stmt(683, {}, {"y"}),
        Stmt(684, {"x", "y"}, {})
    >>),
    Cell(702, <<
        Instance(702, {"Protein"}, {"x"}),
        Stmt(703, {"dir", "x"}, {})
    >>),
    Cell(721, <<
        Instance(721, {"Protein"}, {"p1"}),
        Instance(722, {"Protein"}, {"p2"}),
        Stmt(723, {"p1", "p2"}, {})
    >>),
    Cell(734, <<
        Class(735, {"Sequence"}, {"Protein"}, {"len"})
    >>),
    Cell(751, <<
        Instance(751, {"Protein"}, {"p1"}),
        Instance(752, {"Protein"}, {"p2"}),
        Stmt(753, {"p1", "p2"}, {})
    >>),
    Cell(793, <<
        Function(793, {"sum_two_things"}, {})
    >>),
    Cell(805, <<
        Stmt(805, {"sum_two_things"}, {})
    >>),
    Cell(816, <<
        Stmt(816, {"sum_two_things"}, {})
    >>)
    >>

\* the code cells of the machine-learning notebook, statement by statement
MlCells ==
    <<
    Cell(914, <<
        Import(917, {"plt"}),
        Import(918, {"sns"}),
        Stmt(920, {"sns"}, {})
    >>),
    Cell(935, <<
        Import(935, {"np"}),
        Import(936, {"pd"}),
        Import(937, {"datasets"})
    >>),
    Cell(948, <<
        Stmt(948, {"datasets"}, {"d"})
    >>),
    Cell(959, <<
        Stmt(959, {"d", "print"}, {})
    >>),
    Cell(970, <<
        Stmt(970, {"d"}, {})
    >>),
    Cell(981, <<
        Stmt(981, {"d"}, {})
    >>),
    Cell(992, <<
        Stmt(992, {"d"}, {})
    >>),
    Cell(1003, <<
        Stmt(1003, {"d"}, {})
    >>),
    Cell(1014, <<
        Stmt(1014, {"d", "pd"}, {"df"})
    >>),
    Cell(1026, <<
        Stmt(1026, {"d", "pd"}, {"target"})
    >>),
    Cell(1038, <<
        Stmt(1038, {"df"}, {})
    >>),
    Cell(1061, <<
        Stmt(1061, {"df"}, {})
    >>),
    Cell(1085, <<
        Stmt(1085, {"df", "sns"}, {})
    >>),
    Cell(1096, <<
        Import(1096, {"scatter_matrix"}),
        Stmt(1098, {"df", "scatter_matrix"}, {})
    >>),
    Cell(1116, <<
        Stmt(1116, {"df", "sns"}, {"mclust"}),
        Stmt(1119, {"mclust"}, {})
    >>),
    Cell(1138, <<
        Stmt(1138, {"df"}, {"feat_corr"}),
        Stmt(1139, {"feat_corr"}, {})
    >>),
    Cell(1150, <<
        Stmt(1150, {"df"}, {"feat_corr"}),
        Stmt(1152, {"feat_corr", "np"}, {}),
        Stmt(1153, {"feat_corr"}, {"feat_corr"})
    >>),
    Cell(1164, <<
        Stmt(1164, {"feat_corr"}, {})
    >>),
    Cell(1175, <<
        Stmt(1176, {"feat_corr"}, {"high_corr"}),
        Stmt(1177, {"set"}, {"discarded"}),
        Stmt(1178, {"set"}, {"saved"}),
        Loop(1179, {"high_corr"}, {"feat1"}, 4, FALSE),
        Stmt(1180, {"discarded", "feat1"}, {}),
        Stmt(1182, {"feat1", "saved"}, {}),
        Loop(1183, {"feat1", "high_corr"}, {"feat2"}, 1, FALSE),
        Stmt(1184, {"discarded", "feat2"}, {})
    >>),
    Cell(1195, <<
        Stmt(1195, {"saved"}, {})
    >>),
    Cell(1206, <<
        Stmt(1206, {"discarded"}, {})
    >>),
    Cell(1217, <<
        Stmt(1217, {"df", "discarded", "set", "sns", "sorted"}, {})
    >>),
    Cell(1228, <<
        Stmt(1228, {"df", "discarded", "set", "sorted"}, {"df"})
    >>),
    Cell(1254, <<
        Import(1254, {"model_selection"})
    >>),
    Cell(1265, <<
        Stmt(1265, {"df", "model_selection"}, {"df_test", "df_train"}),
        Stmt(1267, {"df_train"}, {})
    >>),
    Cell(1278, <<
        Stmt(1278, {"df_test", "df_train", "target"}, {"target_test", "target_train"}),
        Stmt(1279, {"target_train"}, {})
    >>),
    Cell(1290, <<
        Stmt(1290, {"target_train"}, {})
    >>),
    Cell(1301, <<
        Stmt(1301, {"target_test"}, {})
    >>),
    Cell(1321, <<
        Stmt(1321, {"model_selection"}, {"cv"})
    >>),
    Cell(1348, <<
        Stmt(1348, {"cv", "df", "target"}, {})
    >>),
    Cell(1359, <<
        Stmt(1359, {"cv", "df", "next", "target"}, {"test_idx", "train_idx"}),
        Stmt(1360, {"train_idx"}, {})
    >>),
    Cell(1371, <<
        Stmt(1371, {"df", "target", "train_idx"}, {"df_train", "target_train"}),
        Stmt(1372, {"df", "target", "test_idx"}, {"df_test", "target_test"}),
        Stmt(1373, {"df_train"}, {})
    >>),
    Cell(1384, <<
        Stmt(1384, {"target_train"}, {})
    >>),
    Cell(1395, <<
        Stmt(1395, {"target_test"}, {})
    >>),
    Cell(1423, <<
        Import(1423, {"preprocessing"})
    >>),
    Cell(1434, <<
        Stmt(1434, {"preprocessing"}, {"std_scaler"}),
        Stmt(1435, {"df_train", "std_scaler"}, {})
    >>),
    Cell(1453, <<
        Stmt(1453, {"df_train", "std_scaler"}, {})
    >>),
    Cell(1464, <<
        Stmt(1465, {"df_train", "pd", "std_scaler"}, {"df_scaled"})
    >>),
    Cell(1477, <<
        Stmt(1477, {"df_scaled"}, {})
    >>),
    Cell(1502, <<
        Import(1502, {"svm"})
    >>),
    Cell(1513, <<
        Stmt(1513, {"svm"}, {})
    >>),
    Cell(1524, <<
        Stmt(1524, {"svm"}, {"clf"}),
        Stmt(1525, {"clf", "df_scaled", "target_train"}, {"clf"})
    >>),
    Cell(1543, <<
        Stmt(1543, {"clf", "df_scaled"}, {})
    >>),
    Cell(1554, <<
        Stmt(1554, {"clf", "df_scaled", "pd", "target_train"}, {"predict_train"})
    >>),
    Cell(1577, <<
        Stmt(1577, {"predict_train", "target_train"}, {"combined"}),
        Stmt(1578, {"combined"}, {})
    >>),
    Cell(1589, <<
        Stmt(1589, {"combined"}, {})
    >>),
    Cell(1607, <<
        Import(1607, {"metrics"})
    >>),
    Cell(1618, <<
        Stmt(1618, {"plt"}, {}),
        Stmt(1620, {"plt"}, {}),
        Stmt(1622, {"combined", "metrics"}, {"fpr", "thresholds", "tpr"}),
        Stmt(1624, {"fpr", "plt", "tpr"}, {}),
        Stmt(1626, {"plt"}, {}),
        Stmt(1631, {"plt"}, {}),
        Stmt(1632, {"plt"}, {}),
        Stmt(1634, {"plt"}, {}),
        Stmt(1635, {"plt"}, {}),
        Stmt(1637, {"plt"}, {}),
        Stmt(1639, {"combined", "metrics"}, {"prec", "rec", "thresholds"}),
        Stmt(1641, {"plt", "prec", "rec"}, {}),
        Stmt(1644, {"plt"}, {}),
        Stmt(1645, {"plt"}, {}),
        Stmt(1647, {"plt"}, {}),
        Stmt(1648, {"plt"}, {}),
        Stmt(1650, {"plt"}, {}),
        Stmt(1652, {"combined", "metrics"}, {})
    >>),
    Cell(1673, <<
        Stmt(1673, {"clf", "df_scaled", "metrics", "model_selection", "target_train"}, {})
    >>),
    Cell(1695, <<
        Stmt(1695, {"np"}, {"param_grid"}),
        Stmt(1698, {"svm"}, {"clf"}),
        Stmt(1699, {"clf", "metrics", "model_selection", "param_grid"}, {"grid_search"}),
        Stmt(1703, {"df_scaled", "grid_search", "target_train"}, {})
    >>),
    Cell(1714, <<
        Stmt(1714, {"grid_search"}, {})
    >>),
    Cell(1725, <<
        Stmt(1725, {"plt"}, {}),
        Loop(1727, {"grid_search", "zip"}, {"mean_score", "params"}, 3, FALSE),
        Stmt(1729, {"params"}, {}),
        Stmt(1730, {"mean_score", "params", "plt"}, {}),
        Stmt(1734, {"mean_score", "params", "plt"}, {}),
        Stmt(1737, {"plt"}, {}),
        Stmt(1738, {"plt"}, {})
    >>),
    Cell(1761, <<
        Import(1761, {"pipeline"})
    >>),
    Cell(1772, <<
        Stmt(1772, {"pipeline", "preprocessing", "svm"}, {"breast_pipeline"})
    >>),
    Cell(1784, <<
        Stmt(1784, {"breast_pipeline", "df_train", "target_train"}, {"breast_pipeline"}),
        Stmt(1785, {"breast_pipeline", "df_test"}, {})
    >>),
    Cell(1796, <<
        Stmt(1796, {"breast_pipeline", "df_test", "pd", "target_test"}, {"predict_test"}),
        Stmt(1799, {"predict_test", "target_test"}, {"combined"}),
        Stmt(1800, {"combined"}, {})
    >>),
    Cell(1811, <<
        Stmt(1811, {"plt"}, {}),
        Stmt(1813, {"plt"}, {}),
        Stmt(1815, {"combined", "metrics"}, {"fpr", "thresholds", "tpr"}),
        Stmt(1817, {"fpr", "plt", "tpr"}, {}),
        Stmt(1819, {"plt"}, {}),
        Stmt(1824, {"plt"}, {}),
        Stmt(1825, {"plt"}, {}),
        Stmt(1827, {"plt"}, {}),
        Stmt(1828, {"plt"}, {}),
        Stmt(1830, {"plt"}, {}),
        Stmt(1832, {"combined", "metrics"}, {"prec", "rec", "thresholds"}),
        Stmt(1834, {"plt", "prec", "rec"}, {}),
        Stmt(1837, {"plt"}, {}),
        Stmt(1838, {"plt"}, {}),
        Stmt(1840, {"plt"}, {}),
        Stmt(1841, {"plt"}, {}),
        Stmt(1843, {"plt"}, {}),
        Stmt(1845, {"combined", "metrics"}, {})
    >>),
    Cell(1880, <<
        Stmt(1880, {"datasets"}, {"iris"})
    >>),
    Cell(1895, <<
        Stmt(1896, {"iris"}, {})
    >>),
    Cell(1911, <<
        Stmt(1912, {"iris"}, {})
    >>),
    Cell(1927, <<
        Stmt(1928, {"iris"}, {})
    >>),
    Cell(1943, <<
        Stmt(1944, {"preprocessing"}, {"std_scaler"}),
        Stmt(1945, {"iris", "std_scaler"}, {})
    >>),
    Cell(1960, <<
        Import(1960, {"KMeans"})
    >>),
    Cell(1975, <<
        Stmt(1975, {"KMeans"}, {"kmeans"}),
        Stmt(1976, {"iris", "kmeans"}, {})
    >>),
    Cell(1991, <<
        Stmt(1991, {"kmeans"}, {})
    >>),
    Cell(2006, <<
        Stmt(2007, {"kmeans"}, {})
    >>),
    Cell(2029, <<
        Stmt(2029, {"plt"}, {}),
        Stmt(2031, {"plt"}, {}),
        Loop(2032, {"iris", "set", "zip"}, {"glyph", "label"}, 2, FALSE),
        Loop(2033, {"kmeans", "set", "zip"}, {"cluster", "color"}, 1, FALSE),
        Stmt(2034, {"cluster", "color", "glyph", "iris", "kmeans", "label", "plt"}, {}),
        Stmt(2041, {"plt"}, {}),
        Stmt(2042, {"plt"}, {}),
        Stmt(2044, {"plt"}, {}),
        Loop(2045, {"iris", "set", "zip"}, {"glyph", "label"}, 2, FALSE),
        Loop(2046, {"kmeans", "set", "zip"}, {"cluster", "color"}, 1, FALSE),
        Stmt(2047, {"cluster", "color", "glyph", "iris", "kmeans", "label", "plt"}, {}),
        Stmt(2054, {"plt"}, {}),
        Stmt(2055, {"plt"}, {}),
        Stmt(2056, {"plt"}, {})
    >>),
    Cell(2078, <<
        Stmt(2078, {"iris", "kmeans", "metrics"}, {})
    >>),
    Cell(2102, <<
        Import(2102, {"RidgeClassifier"})
    >>),
    Cell(2117, <<
        Stmt(2117, {"RidgeClassifier"}, {"ridge"}),
        Stmt(2118, {"iris", "ridge"}, {})
    >>),
    Cell(2133, <<
        Stmt(2133, {"iris", "ridge"}, {"predictions"})
    >>),
    Cell(2148, <<
        Stmt(2148, {"iris", "metrics", "predictions"}, {})
    >>),
    Cell(2170, <<
        Stmt(2170, {"plt"}, {}),
        Stmt(2172, {"plt"}, {}),
        Stmt(2173, {"iris", "plt", "predictions"}, {}),
        Stmt(2177, {"iris", "plt", "predictions"}, {}),
        Stmt(2181, {"plt"}, {}),
        Stmt(2182, {"plt"}, {}),
        Stmt(2184, {"plt"}, {}),
        Stmt(2185, {"iris", "plt", "predictions"}, {}),
        Stmt(2189, {"iris", "plt", "predictions"}, {}),
        Stmt(2193, {"plt"}, {}),
        Stmt(2194, {"plt"}, {}),
        Stmt(2195, {"plt"}, {})
    >>)
    >>

\* the code cells of the bioimage notebook, statement by statement
ImageCells ==
    <<
    Cell(80, <<
        Import(81, {"division", "print_function"}),
        Import(84, {"np"}),
        Import(85, {"pd"}),
        Import(86, {"plt"}),
        Import(89, {"ndi"}),
        Import(90, {"filters", "graph", "io", "measure", "segmentation"}),
        Import(93, {"metrics", "preprocessing", "svm"})
    >>),
    Cell(111, <<
        Stmt(112, {"io"}, {"raw"}),
        Stmt(115, {"print", "raw", "type"}, {}),
        Stmt(116, {"print", "raw"}, {}),
        Stmt(117, {"print", "raw"}, {}),
        Stmt(118, {"print", "raw"}, {}),
        Stmt(121, {"raw"}, {"nuc"}),
        Stmt(122, {"raw"}, {"pH3"}),
        Stmt(123, {"raw"}, {"act"})
    >>),
    Cell(141, <<
        Stmt(142, {"nuc", "plt"}, {}),
        Stmt(143, {"plt"}, {})
    >>),
    Cell(154, <<
        Stmt(155, {"plt"}, {"ax", "fig"}),
        Loop(156, {"act", "ax", "nuc", "pH3", "zip"}, {"axis", "image", "title"}, 3, TRUE),
        Stmt(157, {"axis", "image"}, {}),
        Stmt(158, {"axis", "title"}, {}),
        Stmt(159, {"axis"}, {}),
        Stmt(160, {"plt"}, {})
    >>),
    Cell(171, <<
        Stmt(172, {"plt"}, {"fig"}),
        Stmt(173, {"np", "nuc", "plt"}, {}),
        Stmt(174, {"image", "np"}, {"rgb"}),
        Loop(175, {"act", "enumerate", "nuc", "pH3"}, {"i", "image"}, 1, TRUE),
        Stmt(176, {"i", "image", "np", "rgb"}, {}),
        Stmt(177, {"plt", "rgb"}, {}),
        Stmt(178, {"plt"}, {}),
        Stmt(179, {"plt"}, {})
    >>),
    Cell(219, <<
        Stmt(220, {"ndi", "nuc"}, {"nuc_smooth"}),
        Stmt(223, {"plt"}, {"ax", "fig"}),
        Stmt(224, {"ax", "nuc"}, {}),
        Stmt(225, {"ax"}, {}),
        Stmt(226, {"ax"}, {}),
        Stmt(227, {"ax", "nuc_smooth"}, {}),
        Stmt(228, {"ax"}, {}),
        Stmt(229, {"ax"}, {}),
        Stmt(230, {"plt"}, {})
    >>),
    Cell(263, <<
        Stmt(264, {"ndi", "nuc_smooth"}, {"nuc_smooth_bg"}),
        Stmt(265, {"nuc_smooth", "nuc_smooth_bg"}, {"nuc_smooth_bgsub"}),
        Stmt(266, {"nuc_smooth", "nuc_smooth_bg", "nuc_smooth_bgsub"}, {}),
        Stmt(269, {"plt"}, {"ax", "fig"}),
        Stmt(270, {"ax", "nuc_smooth"}, {}),
        Stmt(271, {"ax"}, {}),
        Stmt(272, {"ax"}, {}),
        Stmt(273, {"ax", "nuc_smooth_bgsub"}, {}),
        Stmt(274, {"ax"}, {}),
        Stmt(275, {"ax"}, {}),
        Stmt(276, {"plt"}, {})
    >>),
    Cell(287, <<
        Function(290, {"threshold_plot"}, {"np", "nuc_smooth_bgsub", "plt"}),
        Import(304, {"interactive"}),
        Stmt(305, {"interactive", "threshold_plot"}, {})
    >>),
    Cell(316, <<
        Stmt(317, {"nuc_smooth_bgsub"}, {"nuc_mask"})
    >>),
    Cell(335, <<
        Stmt(336, {"ndi", "nuc_mask"}, {"nuc_labeled"}),
        Stmt(339, {"plt"}, {"fig"}),
        Stmt(340, {"nuc_smooth_bgsub", "plt"}, {}),
        Stmt(341, {"np", "nuc_labeled", "plt"}, {}),
        Stmt(342, {"plt"}, {}),
        Stmt(343, {"plt"}, {})
    >>),
    Cell(372, <<
        Stmt(374, {"act", "np"}, {"act_bgsub"}),
        Stmt(375, {"act", "act_bgsub", "np"}, {}),
        Stmt(378, {"plt"}, {"fig"}),
        Stmt(379, {"act", "plt"}, {}),
        Stmt(380, {"act_bgsub", "np", "plt"}, {}),
        Stmt(381, {"plt"}, {}),
        Stmt(382, {"plt"}, {})
    >>),
    Cell(393, <<
        Stmt(394, {"np", "nuc_labeled"}, {"seeds"}),
        Stmt(395, {"act_bgsub", "nuc_labeled", "seeds"}, {})
    >>),
    Cell(406, <<
        Stmt(407, {"act_bgsub", "filters"}, {"act_sobel"}),
        Stmt(410, {"plt"}, {"fig"}),
        Stmt(411, {"act_sobel", "plt"}, {}),
        Stmt(412, {"plt"}, {}),
        Stmt(413, {"plt"}, {})
    >>),
    Cell(424, <<
        Stmt(425, {"act_sobel", "seeds", "segmentation"}, {"act_ws"}),
        Stmt(428, {"act_ws", "nuc_labeled"}, {}),
        Stmt(431, {"plt"}, {"fig"}),
        Stmt(432, {"act_bgsub", "plt"}, {}),
        Stmt(433, {"act_ws", "np", "plt"}, {}),
        Stmt(434, {"plt"}, {}),
        Stmt(435, {"plt"}, {})
    >>),
    Cell(446, <<
        Stmt(447, {"plt"}, {"fig"}),
        Stmt(448, {"act_bgsub", "plt"}, {}),
        Stmt(449, {"np", "nuc_labeled", "plt"}, {}),
        Stmt(450, {"act_ws", "filters"}, {"boundaries"}),
        Stmt(451, {"boundaries", "np", "plt"}, {}),
        Stmt(452, {"plt"}, {}),
        Stmt(453, {"plt"}, {})
    >>),
    Cell(478, <<
        Stmt(479, {"measure", "nuc", "nuc_labeled"}, {"nuc_props_nuc"}),
        Stmt(480, {"measure", "nuc_labeled", "pH3"}, {"nuc_props_pH3"}),
        Stmt(481, {"act", "measure", "nuc_labeled"}, {"nuc_props_act"})
    >>),
    Cell(492, <<
        Function(495, {"props2dict"}, {"np", "tuple", "type"}),
        Stmt(518, {"nuc_props_pH3", "props2dict"}, {"propdict_pH3"}),
        Stmt(519, {"nuc_props_act", "props2dict"}, {"propdict_act"}),
        Stmt(522, {"nuc_props_nuc", "pd", "props2dict"}, {"propdf"}),
        Stmt(523, {"propdf"}, {"propdf"})
    >>),
    Cell(541, <<
        Stmt(541, {"propdf"}, {})
    >>),
    Cell(552, <<
        Stmt(552, {"propdf"}, {})
    >>),
    Cell(563, <<
        Stmt(564, {"plt"}, {"fig"}),
        Stmt(565, {"propdf"}, {}),
        Stmt(566, {"fig"}, {}),
        Stmt(567, {"plt"}, {})
    >>),
    Cell(578, <<
        Stmt(579, {}, {"color_prop"}),
        Stmt(580, {"np", "nuc"}, {"nuc_propcolored"}),
        Loop(581, {"enumerate", "propdf"}, {"label", "row"}, 1, FALSE),
        Stmt(582, {"color_prop", "label", "nuc_labeled", "nuc_propcolored", "propdict_act", "row"}, {}),
        Stmt(585, {"plt"}, {"fig"}),
        Stmt(586, {"act_bgsub", "plt"}, {}),
        Stmt(587, {"np", "nuc_propcolored", "plt"}, {}),
        Stmt(589, {"color_prop", "plt"}, {}),
        Stmt(590, {"plt"}, {}),
        Stmt(591, {"plt"}, {})
    >>),
    Cell(602, <<
        Stmt(603, {"plt"}, {"fig"}),
        Stmt(604, {"plt", "propdf"}, {}),
        Stmt(605, {"np", "plt", "propdf"}, {}),
        Stmt(606, {"plt"}, {}),
        Stmt(607, {"plt"}, {}),
        Stmt(608, {"plt"}, {}),
        Stmt(609, {"plt"}, {})
    >>),
    Cell(633, <<
        Stmt(634, {"propdf"}, {"propdf_stand"}),
        Stmt(637, {"plt"}, {"fig"}),
        Stmt(638, {"propdf_stand"}, {}),
        Stmt(639, {"fig"}, {}),
        Stmt(640, {"plt"}, {})
    >>),
    Cell(651, <<
        Stmt(654, {"plt", "propdict_pH3"}, {}),
        Stmt(655, {"plt"}, {}),
        Stmt(656, {"plt"}, {}),
        Stmt(659, {"propdict_pH3"}, {"ground_truth"})
    >>),
    Cell(670, <<
        Stmt(671, {"svm"}, {"svc"}),
        Stmt(672, {"ground_truth", "propdf_stand", "svc"}, {})
    >>),
    Cell(683, <<
        Stmt(684, {"propdf_stand", "svc"}, {"prediction"})
    >>),
    Cell(695, <<
        Stmt(696, {"ground_truth", "metrics", "prediction"}, {"cmat"}),
        Stmt(699, {"cmat", "plt"}, {}),
        Loop(700, {"cmat", "np"}, {"i", "j", "z"}, 1, FALSE),
        Stmt(701, {"i", "j", "plt", "z"}, {}),
        Stmt(702, {"plt"}, {}),
        Stmt(703, {"plt"}, {}),
        Stmt(704, {"plt"}, {}),
        Stmt(705, {"plt"}, {}),
        Stmt(706, {"plt"}, {})
    >>)
    >>

Notebooks == {"oop", "ml", "image"}

Notebook(name) ==
    CASE name = "oop"   -> OopCells
      [] name = "ml"    -> MlCells
      [] name = "image" -> ImageCells
      [] OTHER          -> <<>>

\* the names a statement needs: the ones it reads and, for the functions,
\* classes and instances among them, the global names their bodies read
Needed(stmt, globals) ==
    stmt.reads \cup UNION {globals[n].frees : n \in stmt.reads \cap DOMAIN globals}

\* name resolution at module level: the globals, then the builtins
Unbound(stmt, globals) == Needed(stmt, globals) \ ((DOMAIN globals) \cup Builtins)

\* Every loop may find its iterable empty.
MayBeEmptyAnyLoop(stmt) == stmt.kind = "loop"

\* a loop whose iterable comes from the data may run its body zero times
MayBeEmpty(stmt) == stmt.kind = "loop" /\ ~stmt.always

\* The binding of a name is kept when the name is bound again.
BindKeepFirst(globals, cell, stmt) ==
    LET classes == {n \in stmt.reads \cap DOMAIN globals : globals[n].kind = "class"} IN
    [n \in (DOMAIN globals) \cup stmt.binds |->
        IF n \in DOMAIN globals THEN globals[n]
        ELSE [cell  |-> cell.line, line |-> stmt.line,
              kind  |-> IF stmt.kind = "loop" THEN "value" ELSE stmt.kind,
              class |-> IF stmt.kind = "class" THEN {n}
                        ELSE IF stmt.kind = "instance" THEN classes ELSE {},
              frees |-> IF stmt.kind = "instance"
                        THEN UNION {globals[c].frees : c \in classes}
                        ELSE stmt.frees]]

\* name = value at module level: the name refers to the new value from now
\* on; an instance carries the methods of its class
Bind(globals, cell, stmt) ==
    LET classes == {n \in stmt.reads \cap DOMAIN globals : globals[n].kind = "class"} IN
    [n \in (DOMAIN globals) \cup stmt.binds |->
        IF n \notin stmt.binds THEN globals[n]
        ELSE [cell  |-> cell.line, line |-> stmt.line,
              kind  |-> IF stmt.kind = "loop" THEN "value" ELSE stmt.kind,
              class |-> IF stmt.kind = "class" THEN {n}
                        ELSE IF stmt.kind = "instance" THEN classes ELSE {},
              frees |-> IF stmt.kind = "instance"
                        THEN UNION {globals[c].frees : c \in classes}
                        ELSE stmt.frees]]

\* the reads of classes and instances a statement makes: which binding
\* (cell and line) is read from which cell and line
Uses(globals, cell, stmt) ==
    {[name |-> n, class |-> globals[n].class, kind |-> globals[n].kind,
      def_cell |-> globals[n].cell, def_line |-> globals[n].line,
      use_cell |-> cell.line, use_line |-> stmt.line] :
        n \in {m \in stmt.reads \cap DOMAIN globals : globals[m].kind \in {"class", "instance"}}}

\* the position after statement si of cell ci, skipping skip statements
After(cells, ci, si, skip) ==
    IF si + skip + 1 > Len(cells[ci].code) THEN <<ci + 1, 1>> ELSE <<ci, si + skip + 1>>

NbRunning == nb_name \in Notebooks /\ nb_pc[1] <= Len(Notebook(nb_name))

CurrentCell == Notebook(nb_name)[nb_pc[1]]
CurrentStmt == CurrentCell.code[nb_pc[2]]

\* the kernel executes the next statement of the current cell: a name that
\* is not bound raises NameError; otherwise the statement reads its names
\* and either raises the error the notebook shows or binds its targets; an
\* error ends the cell and the next cell is run
ExecStmt ==
    /\ NbRunning
    /\ IF Unbound(CurrentStmt, nb_globals) # {}
       THEN /\ nb_errors' = nb_errors \cup
                  {[cell |-> CurrentCell.line, line |-> CurrentStmt.line,
                    names |-> Unbound(CurrentStmt, nb_globals)]}
            /\ nb_pc' = <<nb_pc[1] + 1, 1>>
            /\ UNCHANGED <<nb_globals, nb_uses>>
       ELSE /\ nb_uses' = nb_uses \cup Uses(nb_globals, CurrentCell, CurrentStmt)
            /\ UNCHANGED nb_errors
            /\ IF CurrentStmt.raises # ""
               THEN /\ nb_pc' = <<nb_pc[1] + 1, 1>>
                    /\ UNCHANGED nb_globals
               ELSE /\ nb_globals' = Bind(nb_globals, CurrentCell, CurrentStmt)
                    /\ nb_pc' = After(Notebook(nb_name), nb_pc[1], nb_pc[2], 0)
    /\ UNCHANGED nb_name

\* a loop over an empty iterable: the targets stay as they were and the
\* body is skipped
LoopEmpty ==
    /\ NbRunning
    /\ Unbound(CurrentStmt, nb_globals) = {}
    /\ MayBeEmpty(CurrentStmt)
    /\ nb_uses' = nb_uses \cup Uses(nb_globals, CurrentCell, CurrentStmt)
    /\ nb_pc' = After(Notebook(nb_name), nb_pc[1], nb_pc[2], CurrentStmt.body)
    /\ UNCHANGED <<nb_name, nb_globals, nb_errors>>

NbIdle ==
    /\ nb_name = "none"
    /\ nb_pc = <<1, 1>>
    /\ nb_globals = <<>>
    /\ nb_errors = {}
    /\ nb_uses = {}

\* a new kernel for one of the notebooks: nothing is bound
NbInit ==
    /\ nb_name \in Notebooks
    /\ nb_pc = <<1, 1>>
    /\ nb_globals = <<>>
    /\ nb_errors = {}
    /\ nb_uses = {}

NbNext ==
    \/ ExecStmt /\ UNCHANGED <<rvVars, dogVars, mlVars, imVars>>
    \/ LoopEmpty /\ UNCHANGED <<rvVars, dogVars, mlVars, imVars>>

\* ---------------------------------------------------------------------
\* Specifications
\* ---------------------------------------------------------------------
InitReverser == RvInit /\ DogInit /\ MLIdle /\ ImIdle /\ NbIdle
InitDog      == RvInit /\ DogInit /\ MLIdle /\ ImIdle /\ NbIdle
InitBreast   == RvInit /\ DogInit /\ MLInitOne /\ ImIdle /\ NbIdle
InitBreastTwoRuns == RvInit /\ DogInit /\ MLInitTwo /\ ImIdle /\ NbIdle
InitImage    == RvInit /\ DogInit /\ MLIdle /\ ImInit /\ NbIdle
InitNotebooks == RvInit /\ DogInit /\ MLIdle /\ ImIdle /\ NbInit

SpecReverserNext == RvNew \/ RvAssign \/ RvGet
SpecReverser == InitReverser /\ [][SpecReverserNext]_vars

SpecDogNext == DogNew \/ DogAddTrick \/ DogSetKind
SpecDog == InitDog /\ [][SpecDogNext]_vars

SpecBreast == InitBreast /\ [][MLNext]_vars
SpecBreastTwoRuns == InitBreastTwoRuns /\ [][MLNext]_vars

SpecImage == InitImage /\ [][ImNext]_vars

SpecNotebooks == InitNotebooks /\ [][NbNext]_vars

Init == InitReverser
Next == SpecReverserNext \/ SpecDogNext
Spec == Init /\ [][Next]_vars

\* ---------------------------------------------------------------------
\* Claims
\* ---------------------------------------------------------------------

IsReverseOf(a, b) ==
    /\ Len(a) = Len(b)
    /\ \A i \in 1..Len(a) : SubSeq(a, i, i) = SubSeq(b, Len(b) + 1 - i, Len(b) + 1 - i)

\* C1: in the name-mangled Reverser, whatever name was given to the
\* constructor and whatever value was assigned from outside as
\* x.__private = v, get_reverse() returns the reversed name; the outside
\* assignment lives in a separate attribute named __private and the
\* attribute set by __init__, stored as _Reverser__private, is unchanged.
C1_ManglingKeepsReverse ==
    rv_x # <<>> =>
        /\ "_Reverser__private" \in DOMAIN rv_x
        /\ IsReverseOf(rv_x["_Reverser__private"], rv_x["public"])
        /\ rv_out # <<>> => IsReverseOf(rv_out[1], rv_x["public"])
        /\ rv_assigned # <<>> =>
              /\ "__private" \in DOMAIN rv_x
              /\ rv_x["__private"] = rv_assigned[1]

C1_Witness ==
    /\ rv_x # <<>>
    /\ rv_assigned # <<>>
    /\ rv_out # <<>>
    /\ rv_assigned[1] # rv_out[1]
    /\ rv_x["public"] = "hello world"
    /\ rv_out[1] = "dlrow olleh"

\* C2: after any sequence of add_trick calls on any Dog instances, the
\* tricks of every instance and Dog.tricks are the same list object, and
\* that list holds every trick added through any instance, in call order.
C2_TricksShared ==
    /\ \A i \in DOMAIN dog_inst : DogGetAttr(i, "tricks") = dog_class.tricks
    /\ dog_heap[dog_class.tricks] = dog_added

C2_Witness ==
    /\ Len(dog_inst) = 2
    /\ Len(dog_added) = 2
    /\ dog_added = <<"roll over", "play dead">>
    /\ dog_heap[DogGetAttr(1, "tricks")] = <<"roll over", "play dead">>
    /\ "kind" \in DOMAIN dog_inst[2]


\* the dataset of a run as a frame with every column
FullFrame(ns) == DataFrame(ns.data, FeatureNames)

\* C3: in the pruning loop, whatever the iteration order of the feature
\* set, every feature in discarded has a correlation above 0.7 with at
\* least one feature in saved, and no feature is both saved and discarded.
C3_DiscardedHaveRepresentative ==
    \A r \in Runs :
        /\ ml_ns[r].saved \cap ml_ns[r].discarded = {}
        /\ \A f \in ml_ns[r].discarded :
              \E g \in ml_ns[r].saved :
                 CorrAbove(Column(FullFrame(ml_ns[r]), f), Column(FullFrame(ml_ns[r]), g))

C3_Witness ==
    /\ ml_pc = "train_test_split"
    /\ \E r \in Runs :
          /\ Cardinality(ml_ns[r].saved) = 2
          /\ Cardinality(ml_ns[r].discarded) = 1
          /\ Cardinality(ml_ns[r].high_corr) = 4

FitOps == {"std_scaler.fit", "std_scaler.fit_transform", "clf.fit",
           "cross_val_score", "grid_search.fit", "breast_pipeline.fit"}

\* C4: from the stratified split onward no fit, fit_transform,
\* cross_val_score or GridSearchCV call receives a row of the test set,
\* df_test is read only by the breast_pipeline.predict calls, and the
\* predictions on df_test are made from df_test scaled with the
\* parameters learned from the rows of the train set.
C4_OnlyTrainSetIsFitted ==
    \A r \in Runs :
        LET ns == ml_ns[r]
            test == SeqSet(ns.test_idx)
        IN  /\ \A i \in 1..Len(ns.calls) :
                  /\ ns.calls[i].op \in FitOps =>
                        /\ ns.calls[i].rows \cap test = {}
                        /\ ns.calls[i].rows = SeqSet(ns.train_idx)
                  /\ "df_test" \in ns.calls[i].args =>
                        ns.calls[i].op = "breast_pipeline.predict"
                  /\ ns.calls[i].rows \cap test # {} =>
                        ns.calls[i].op = "breast_pipeline.predict"
            /\ ml_pc = "done" =>
                  ns.predict_test.values =
                      Predict(ScalerTransform(ScalerFit(ILocFrame(ns.df, ns.train_idx)),
                                              ILocFrame(ns.df, ns.test_idx)))

C4_Witness ==
    /\ ml_pc = "done"
    /\ \E r \in Runs :
          LET ns == ml_ns[r] IN
          /\ Len(ns.calls) = 9
          /\ Len(ns.predict_test.values) = NTest(NRows)
          /\ ScalerFit(ns.df_train) # ScalerFit(ns.df)
          /\ ns.predict_test.values # Predict(ScalerTransform(ScalerFit(ns.df_test), ns.df_test))

\* C5: the test set is not used until the very end: two runs whose datasets
\* differ only in feature values of rows that end up in the test set
\* produce the same selected columns, the same scaler parameters, the same
\* hyper-parameter search and the same fitted classifier.
C5_TestRowsDoNotInfluence ==
    (/\ ml_pc = "done"
     /\ Runs = {1, 2}
     /\ ml_ns[1].hashorder = ml_ns[2].hashorder) =>
        /\ ml_ns[1].df.columns = ml_ns[2].df.columns
        /\ ml_ns[1].std_scaler = ml_ns[2].std_scaler
        /\ ml_ns[1].grid_search = ml_ns[2].grid_search
        /\ ml_ns[1].breast_pipeline = ml_ns[2].breast_pipeline

\* C6: with random_state fixed, every run of the notebook on the same
\* dataset yields the same train/test sets: df_train, target_train,
\* df_test and target_test hold the same rows and the same columns.
C6_SameSplitEveryRun ==
    (/\ ml_pc = "done"
     /\ Runs = {1, 2}
     /\ ml_ns[1].data = ml_ns[2].data) =>
        /\ ml_ns[1].df_train = ml_ns[2].df_train
        /\ ml_ns[1].target_train = ml_ns[2].target_train
        /\ ml_ns[1].df_test = ml_ns[2].df_test
        /\ ml_ns[1].target_test = ml_ns[2].target_test

\* the labels s holds are those of the rows of frame, in the same order
LabelsOf(s, frame) ==
    /\ Len(s.values) = Len(frame.values)
    /\ \A i \in 1..Len(frame.values) :
          /\ s.values[i] = ml_target[frame.src[i] + 1]
          /\ s.index[i] = frame.index[i]

\* combined has one row per row of frame, pairing the label of that sample
\* with the prediction computed from that sample's scaled features
PairsOf(combined, frame, params, ns) ==
    /\ Len(combined) = Len(frame.values)
    /\ \A k \in 1..Len(frame.src) :
          \E i \in 1..Len(combined) :
             /\ combined[i].index = frame.src[k]
             /\ \A j \in 1..Len(combined) : combined[j].index = frame.src[k] => j = i
             /\ combined[i].target = ml_target[frame.src[k] + 1]
             /\ combined[i].prediction_src = frame.src[k]
             /\ combined[i].prediction.x =
                   ScalerTransform(params, ILocFrame(ns.df, <<frame.src[k]>>)).values[1]

\* C7: features, labels and predictions stay aligned per sample: in both
\* splits the train and test rows are disjoint and cover every row,
\* target_train / target_test hold the labels of exactly the rows of
\* df_train / df_test in the same order, and combined has exactly one row
\* per sample, pairing its true label with the prediction made for it.
C7_SamplesStayAligned ==
    \A r \in Runs :
        LET ns == ml_ns[r]
            train == SeqSet(ns.df_train.src)
            test == SeqSet(ns.df_test.src)
        IN  /\ ns.split # "none" =>
                  /\ train \cap test = {}
                  /\ train \cup test = 0..(NRows - 1)
                  /\ Cardinality(train) = Len(ns.df_train.src)
                  /\ Cardinality(test) = Len(ns.df_test.src)
            /\ ml_pc \notin {"high_corr", "prune", "train_test_split", "target_iloc"} =>
                  /\ LabelsOf(ns.target_train, ns.df_train)
                  /\ LabelsOf(ns.target_test, ns.df_test)
            /\ ml_pc \in {"cross_val", "grid_search", "pipeline_fit", "predict_test"} =>
                  PairsOf(ns.combined, ns.df_train, ScalerFit(ns.df_train), ns)
            /\ ml_pc = "done" =>
                  PairsOf(ns.combined, ns.df_test, ScalerFit(ns.df_train), ns)

C7_Witness ==
    /\ ml_pc = "done"
    /\ \E r \in Runs :
          LET ns == ml_ns[r] IN
          /\ Len(ns.combined) = NTest(NRows)
          /\ ns.target_train.index # RangeIndex(Len(ns.target_train.index))
          /\ ns.combined[1].target # ns.combined[2].target
          /\ ns.combined[1].prediction # ns.combined[2].prediction


\* d is what the claim says props2dict returns for props, less the columns
\* in dropped: the keys are the prop names of the first region whose value
\* there is neither a tuple nor an array, and each key holds one value per
\* region, in the order of the regions
IsDictOfProps(d, props, dropped) ==
    /\ DOMAIN d = {name \in DOMAIN props[1] :
                      props[1][name].type # "tuple" /\ props[1][name].type # "ndarray"}
                  \ dropped
    /\ \A name \in DOMAIN d :
          /\ Len(d[name].data) = Len(props)
          /\ \A i \in 1..Len(props) : d[name].data[i] = props[i][name].v

ImAfter(cells) == im_pc \notin ({"idle", "rgb", "IndexError"} \cup cells)

\* C8: props2dict on a non-empty region list returns a dict whose keys are
\* exactly the prop names of props[0] whose value there is neither a tuple
\* nor a numpy array, each key holding an array of length len(props) whose
\* i-th element is that property of the i-th region, in input order.
C8_Props2DictKeepsScalars ==
    ImAfter({"label", "bgsub", "seeds", "watershed", "regionprops", "props2dict"}) =>
        /\ IsDictOfProps(im_ns.propdict_pH3, im_ns.nuc_props_pH3, {})
        /\ IsDictOfProps(im_ns.propdict_act, im_ns.nuc_props_act, {})
        /\ IsDictOfProps(im_ns.propdf, im_ns.nuc_props_nuc, {"bbox_area", "euler_number"})

C8_Witness ==
    /\ im_pc = "backmap"
    /\ Len(im_ns.nuc_props_pH3) = 2
    /\ "coords" \in DOMAIN im_ns.nuc_props_pH3[1]
    /\ "coords" \notin DOMAIN im_ns.propdict_pH3
    /\ im_ns.propdict_pH3["mean_intensity"].data[1] # im_ns.propdict_pH3["mean_intensity"].data[2]
    /\ im_ns.propdict_act["area"].data = <<1, 2>>

\* C9: the background seed value nuc_labeled.max()+1 differs from 0 and
\* from every nucleus label, preparing the seeds leaves nuc_labeled
\* unchanged, and after the background is removed no pixel of act_ws holds
\* the background value: act_ws holds only 0 and labels of nuc_labeled.
C9_BackgroundSeedRemoved ==
    ImAfter({"label", "bgsub", "seeds"}) =>
        LET lab == im_heap[im_ns.nuc_labeled]
            labels == Values(lab) \ {0}
        IN  /\ im_ns.bg_seed # 0
            /\ im_ns.bg_seed \notin labels
            /\ lab = Label(im_ns.nuc_mask)
            /\ ImAfter({"label", "bgsub", "seeds", "watershed"}) =>
                  \A p \in Pixels :
                     /\ im_heap[im_ns.act_ws][p] # im_ns.bg_seed
                     /\ im_heap[im_ns.act_ws][p] \in {0} \cup labels

C9_Witness ==
    /\ im_pc = "regionprops"
    /\ \E p, q, u \in Pixels :
          /\ im_heap[im_ns.seeds][p] = im_ns.bg_seed
          /\ im_heap[im_ns.nuc_labeled][p] # 0
          /\ im_heap[im_ns.act_ws][p] = 0
          /\ im_heap[im_ns.nuc_labeled][q] = 0
          /\ im_heap[im_ns.act_ws][q] # 0
          /\ im_heap[im_ns.seeds][u] = im_ns.bg_seed
          /\ im_heap[im_ns.nuc_labeled][u] = 0

\* the pixels of the nucleus labelled l
Nucleus(l) == {p \in Pixels : im_heap[im_ns.nuc_labeled][p] = l}

\* C10: row i of propdf, element i of every array of propdict_pH3 and
\* propdict_act and ground_truth[i] refer to the same nucleus label;
\* backmapping gives every pixel of the nucleus labelled L the act-channel
\* value of the chosen property (area) for L and leaves the pixels outside
\* the nuclei at 0.
C10_RowsShareTheNucleus ==
    /\ ImAfter({"label", "bgsub", "seeds", "watershed", "regionprops", "props2dict"}) =>
          LET labels == im_ns.propdf["label"].data IN
          /\ im_ns.propdict_pH3["label"].data = labels
          /\ im_ns.propdict_act["label"].data = labels
          /\ SeqSet(labels) = Values(im_heap[im_ns.nuc_labeled]) \ {0}
          /\ \A i \in 1..Len(labels) :
                /\ im_ns.propdict_act["area"].data[i] = Cardinality(Nucleus(labels[i]))
                /\ im_ns.propdict_act["mean_intensity"].data[i] =
                      <<SumOver(im_ns.act, Nucleus(labels[i])), Cardinality(Nucleus(labels[i]))>>
                /\ im_ns.propdict_pH3["mean_intensity"].data[i] =
                      <<SumOver(im_ns.pH3, Nucleus(labels[i])), Cardinality(Nucleus(labels[i]))>>
    /\ ImAfter({"label", "bgsub", "seeds", "watershed", "regionprops", "props2dict",
                "backmap"}) =>
          \A p \in Pixels :
             im_ns.nuc_propcolored[p] =
                IF im_heap[im_ns.nuc_labeled][p] = 0 THEN 0
                ELSE Cardinality(Nucleus(im_heap[im_ns.nuc_labeled][p]))
    /\ ImAfter({"label", "bgsub", "seeds", "watershed", "regionprops", "props2dict",
                "backmap", "ground_truth"}) =>
          LET labels == im_ns.propdf["label"].data IN
          /\ Len(im_ns.ground_truth) = Len(labels)
          /\ \A i \in 1..Len(labels) :
                im_ns.ground_truth[i] <=>
                   (SumOver(im_ns.pH3, Nucleus(labels[i]))
                       > MitosisThreshold * Cardinality(Nucleus(labels[i])))
    /\ im_pc = "done" =>
          /\ im_ns.svc.X = im_ns.propdf["label"].data
          /\ im_ns.svc.y = im_ns.ground_truth

C10_Witness ==
    /\ im_pc = "done"
    /\ im_ns.propdf["label"].data = <<1, 2>>
    /\ im_ns.ground_truth = <<FALSE, TRUE>>
    /\ im_ns.nuc_propcolored[1] = 2
    /\ im_ns.nuc_propcolored[3] = 0
    /\ im_ns.nuc_propcolored[4] = 1
    /\ \E p \in Pixels : im_heap[im_ns.act_ws][p] # im_heap[im_ns.nuc_labeled][p]

\* C11: after the overlay cell, for every channel of rgb (0 = red = act,
\* 1 = green = pH3, 2 = blue = nuc) whose image has a minimum different
\* from its maximum, every value lies between 0 and 1, the pixels at the
\* minimum hold 0, the pixels at the maximum hold 1 and the values keep the
\* order of the image; for a constant image the divisor is zero.
C11_OverlayNormalized ==
    im_pc \notin {"idle", "rgb"} =>
        \A i \in 0..2 :
            LET image == (0 :> im_ns.act @@ 1 :> im_ns.pH3 @@ 2 :> im_ns.nuc)[i]
                lo    == MinOf(Values(image))
                hi    == MaxOf(Values(image))
                ch    == im_ns.rgb[i]
            IN  /\ DOMAIN ch = DOMAIN image
                /\ lo # hi =>
                      \A p \in DOMAIN image :
                         /\ ch[p][2] > 0
                         /\ 0 <= ch[p][1] /\ ch[p][1] <= ch[p][2]
                         /\ image[p] = lo => ch[p][1] = 0
                         /\ image[p] = hi => ch[p][1] = ch[p][2]
                         /\ \A q \in DOMAIN image :
                               image[p] <= image[q] <=>
                                  ch[p][1] * ch[q][2] <= ch[q][1] * ch[p][2]
                /\ lo = hi => \A p \in DOMAIN image : ch[p][2] = 0

C11_Witness ==
    /\ im_pc = "label"
    /\ im_ns.image = im_ns.nuc
    /\ \E p, q \in Pixels : im_ns.act[p] # im_ns.act[q]
    /\ \A p \in Pixels : im_ns.pH3[p] = PH3Bright /\ im_ns.rgb[1][p][2] = 0
    /\ \E p \in Pixels : 0 < im_ns.rgb[2][p][1] /\ im_ns.rgb[2][p][1] < im_ns.rgb[2][p][2]
    /\ \E p, q \in Pixels : im_ns.rgb[0][p] = <<0, 1>> /\ im_ns.rgb[0][q] = <<1, 1>>

\* C12: when the cells of a notebook are executed once, top to bottom, no
\* statement raises NameError: every name the next statement needs has been
\* bound by an earlier cell or earlier in the same cell; the statement
\* rgb = np.zeros(image.shape+(3,)) of the overlay cell reads the image
\* left behind by the loop of the subplot cell before.
C12_NoNameError ==
    /\ nb_errors = {}
    /\ NbRunning =>
          /\ Unbound(CurrentStmt, nb_globals) = {}
          /\ \A n \in Needed(CurrentStmt, nb_globals) \ Builtins :
                \/ nb_globals[n].cell < CurrentCell.line
                \/ nb_globals[n].cell = CurrentCell.line /\ nb_globals[n].line <= CurrentStmt.line
          /\ (nb_name = "image" /\ CurrentStmt.line = 174) =>
                /\ "image" \in CurrentStmt.reads
                /\ nb_globals["image"].cell = 154
                /\ nb_globals["image"].line = 156

C12_Witness ==
    /\ nb_name = "image"
    /\ ~NbRunning
    /\ nb_errors = {}
    /\ nb_globals["image"].cell = 171
    /\ nb_globals["rgb"].line = 174
    /\ "propdf_stand" \in DOMAIN nb_globals
    /\ "label" \notin DOMAIN nb_globals

\* the example classes the data model lists
ExampleClasses == {"Sequence", "Dna", "Protein", "Dog", "Reverser", "Complex", "BetterInt"}

\* the reads of the example classes and of their instances
ExampleUses == {u \in nb_uses : u.class \cap ExampleClasses # {}}

\* the line of the last statement before line that binds name
LatestBinding(cells, name, line) ==
    MaxOf(UNION {{cells[i].code[j].line :
                     j \in {k \in 1..Len(cells[i].code) :
                               /\ name \in cells[i].code[k].binds
                               /\ cells[i].code[k].raises = ""
                               /\ cells[i].code[k].line < line}} :
                 i \in 1..Len(cells)})

C14_EmptyRegionListRaises ==
    (/\ im_pc \notin {"idle", "rgb", "label", "bgsub", "seeds", "watershed",
                      "regionprops", "props2dict"}
     /\ Len(im_ns.nuc_props_pH3) = 0)
        => /\ im_pc = "IndexError"
           /\ im_ns.propdict_pH3 = Unassigned
           /\ im_ns.propdict_act = Unassigned
           /\ im_ns.propdf = Unassigned

C14_Witness ==
    /\ im_pc = "IndexError"
    /\ \A p \in Pixels : ~im_ns.nuc_mask[p] /\ im_heap[im_ns.nuc_labeled][p] = 0
    /\ im_ns.nuc_props_pH3 = <<>>
    /\ im_ns.nuc_props_nuc = <<>>
    /\ im_ns.propdict_pH3 = Unassigned
    /\ im_ns.propdf = Unassigned
    /\ \E p \in Pixels : im_ns.pH3[p] = PH3Bright

====
